---------------------------- MODULE Spec2Model ----------------------------
(***************************************************************************)
(* issueSHARK: synchronisation of issue-tracker data (issues, comments,    *)
(* change events, people) into a MongoDB store.  The module models the     *)
(* store and the backends' handlers as they are written in                 *)
(*   src/issueshark/backends/bugzilla.py      (BugzillaBackend)            *)
(*   src/issueshark/backends/bugzilla_old.py  (BugzillaBackend, old)       *)
(*   src/issueshark/backends/jirabackend.py   (JiraBackend)                *)
(*   src/issueshark/backends/github.py        (GithubBackend)              *)
(*   src/issueshark/backends/basebackend.py   (BaseBackend)                *)
(* Every handler is one action.  The store collections are sets of         *)
(* documents, each document carrying the ObjectId (field id) the store     *)
(* gave it, so that two documents with equal content stay two documents.   *)
(***************************************************************************)
EXTENDS Integers, Sequences, FiniteSets, Bags, TLC

VARIABLES
    issues,         \* Issue collection
    events,         \* Event collection
    comments,       \* IssueComment collection
    issue_systems,  \* IssueSystem collection: the ids of the generations, the later the larger
    people,         \* People collection: documents [id, name, email, username]
    people_cache,   \* self.people of the backend instance: username -> People id
    nextId,         \* next ObjectId the store hands out
    backend,        \* which backend class the run instantiated
    issue_system_id, \* self.issue_system_id: the IssueSystem document created for this run
    last_system_id, \* self.last_system_id: the IssueSystem of the run before, or NoneId
    refs,           \* observer: external id -> the outcomes of resolving it in this run
    imported,       \* observer: external id -> the documents this run's imports saved for it
    tracker,        \* the remote tracker: what its API returns for each issue
    session,        \* the backend object's own fields besides the people dictionary
    obs,            \* observer: the calls made so far and what they computed
    resolved,       \* observer: the _get_people calls made so far and their results
    err             \* the exception that ended the run, or "none"

storeVars == <<issues, events, comments, issue_systems>>
peopleVars == <<people, people_cache>>
runVars == <<backend, issue_system_id, last_system_id>>
envVars == <<tracker, session, obs>>
vars == <<issues, events, comments, issue_systems, people, people_cache, nextId, backend, issue_system_id,
          last_system_id, refs, imported, tracker, session, obs, resolved, err>>

\* Python's None, where a plain string, a character sequence or an id is expected
None   == "None"
NoneS  == <<"None">>
NoneId == 0

(***************************************************************************)
(* Strings whose characters matter (e-mail addresses, user names) are      *)
(* sequences of one-character strings.                                     *)
(***************************************************************************)
S_at      == <<" ", "a", "t", " ">>
S_dot     == <<" ", "d", "o", "t", " ">>
S_atsign  == <<"@">>
S_period  == <<".">>

\* str.replace(pat, rep): every non-overlapping occurrence, scanning from the left
RECURSIVE Replace(_, _, _)
Replace(s, pat, rep) ==
    IF Len(s) < Len(pat) THEN s
    ELSE IF SubSeq(s, 1, Len(pat)) = pat
         THEN rep \o Replace(SubSeq(s, Len(pat) + 1, Len(s)), pat, rep)
         ELSE <<Head(s)>> \o Replace(Tail(s), pat, rep)

\* email.replace(' at ', '@').replace(' dot ', '.') with the second replace lost
DeobfuscateAtOnly(email) == Replace(email, S_at, S_atsign)

\* email.replace(' at ', '@').replace(' dot ', '.')
Deobfuscate(email) == Replace(Replace(email, S_at, S_atsign), S_dot, S_period)


(***************************************************************************)
(* The tracker's user directory, as the adapter's user lookup answers it   *)
(* (BugzillaAgent.get_user, JiraBackend._get_user).  A user name belongs   *)
(* to one tracker account, so the details that come with a user name are   *)
(* the same wherever the tracker reports them.                             *)
(***************************************************************************)
U_jane1 == <<"j", "1">>
U_jane2 == <<"j", "2">>
U_bob   == <<"b">>
U_mail  == <<"m", "@", "e", ".", "c">>
U_gone  == <<"g">>
Usernames == {U_jane1, U_jane2, U_bob, U_mail, U_gone}

N_jane == <<"J">>
N_bob  == <<"B">>
E_obf    == <<"j", " ", "a", "t", " ", "e", " ", "d", "o", "t", " ", "c">>
E_plain  == <<"j", "@", "e", ".", "c">>
E_nobody == <<"n", "o", "b", "o", "d", "y", "@", "n", "o", "b", "o", "d", "y", ".", "c", "o", "m">>

\* the account behind a user name: found FALSE when the tracker knows no such user
\* (the lookup returns None), email None when the tracker withholds the address
UserDirectory(username) ==
    CASE username = U_jane1 -> [found |-> TRUE,  email |-> E_obf,   real_name |-> N_jane]
      [] username = U_jane2 -> [found |-> TRUE,  email |-> E_plain, real_name |-> N_jane]
      [] username = U_bob   -> [found |-> TRUE,  email |-> NoneS,   real_name |-> N_bob]
      [] OTHER              -> [found |-> FALSE, email |-> NoneS,   real_name |-> NoneS]

\* validate_email(username) of the validate_email package: a local part, one "@",
\* and a domain with a dot in it
validate_email(s) ==
    \E i \in 2..(Len(s) - 1) :
        /\ s[i] = "@"
        /\ \A j \in 1..Len(s) : s[j] = "@" => j = i
        /\ \E k \in (i + 2)..(Len(s) - 1) : s[k] = "."

(***************************************************************************)
(* The state a handler works on, threaded through the calls it makes: the  *)
(* store's collections, the instance's people cache, the ObjectId counter  *)
(* and the exception that is propagating (a handler that raised does       *)
(* nothing more; what it wrote before stays written).                      *)
(***************************************************************************)
EmptyMap == [x \in {} |-> NoneId]
MapPut(m, k, v) == [x \in (DOMAIN m) \cup {k} |-> IF x = k THEN v ELSE m[x]]

\* the document a query matches first: the one stored first
FirstDoc(docs) == CHOOSE d \in docs : \A o \in docs : d.id <= o.id

\* People.objects(name=name, email=email).upsert_one(name=.., email=.., username=..)
\* with the update of a matched document lost: the first writer's document is kept
upsert_one_keep(db, name, email, username) ==
    LET match == {p \in db.people : p.name = name /\ p.email = email}
    IN  IF match = {}
        THEN [db |-> [db EXCEPT !.people = @ \cup {[id |-> db.nextId, name |-> name,
                                                    email |-> email, username |-> username]},
                                !.nextId = @ + 1],
              id |-> db.nextId]
        ELSE [db |-> db, id |-> FirstDoc(match).id]

\* People.objects(name=name, email=email).upsert_one(name=.., email=.., username=..):
\* the matched document is updated with the given fields, or a new one is inserted
upsert_one(db, name, email, username) ==
    LET match == {p \in db.people : p.name = name /\ p.email = email}
    IN  IF match = {}
        THEN [db |-> [db EXCEPT !.people = @ \cup {[id |-> db.nextId, name |-> name,
                                                    email |-> email, username |-> username]},
                                !.nextId = @ + 1],
              id |-> db.nextId]
        ELSE LET p == FirstDoc(match)
             IN  [db |-> [db EXCEPT !.people = (@ \ {p}) \cup {[p EXCEPT !.username = username]}],
                  id |-> p.id]

\* the result of a _get_people call: the state, the People id (NoneId when the
\* call raised)
PeopleResult(db, id) == [db |-> db, id |-> id]

\* BugzillaBackend._get_people(username, email=None, name=None)
Bz_get_people(db, username, email0, name0) ==
    IF db.err # "none" THEN PeopleResult(db, NoneId)
    ELSE IF username \in DOMAIN db.cache THEN PeopleResult(db, db.cache[username])
    ELSE
    LET lookup == email0 = NoneS /\ name0 = NoneS
        user   == UserDirectory(username)
        name   == IF ~lookup THEN name0
                  ELSE IF ~user.found THEN username ELSE user.real_name
        email1 == IF ~lookup THEN email0
                  ELSE IF ~user.found THEN NoneS ELSE user.email
        email2 == IF lookup /\ email1 = NoneS
                  THEN (IF validate_email(username) THEN username ELSE E_nobody)
                  ELSE email1
    IN  IF email2 = NoneS
        THEN PeopleResult([db EXCEPT !.err = "AttributeError"], NoneId)
        ELSE LET up == upsert_one(db, name, Deobfuscate(email2), username)
             IN  PeopleResult([up.db EXCEPT !.cache = MapPut(@, username, up.id)], up.id)

\* JiraBackend._get_people(username, email=None, name=None)
Jira_get_people(db, username, email0, name0) ==
    IF db.err # "none" THEN PeopleResult(db, NoneId)
    ELSE IF username \in DOMAIN db.cache THEN PeopleResult(db, db.cache[username])
    ELSE
    LET lookup == email0 = NoneS /\ name0 = NoneS
        user   == UserDirectory(username)
        name   == IF lookup THEN user.real_name ELSE name0
        email2 == IF lookup THEN user.email ELSE email0
    IN  IF (lookup /\ ~user.found) \/ email2 = NoneS
        THEN PeopleResult([db EXCEPT !.err = "AttributeError"], NoneId)
        ELSE LET up == upsert_one(db, name, Deobfuscate(email2), username)
             IN  PeopleResult([up.db EXCEPT !.cache = MapPut(@, username, up.id)], up.id)

(***************************************************************************)
(* The variables as the state a handler starts from, and a handler's       *)
(* resulting state written back.                                           *)
(***************************************************************************)
DB == [issues |-> issues, events |-> events, comments |-> comments, people |-> people,
       cache |-> people_cache, nextId |-> nextId, err |-> err, refs |-> refs]

SetDB(d) ==
    /\ issues' = d.issues
    /\ events' = d.events
    /\ comments' = d.comments
    /\ issue_systems' = issue_systems
    /\ people' = d.people
    /\ people_cache' = d.cache
    /\ nextId' = d.nextId
    /\ err' = d.err
    /\ refs' = d.refs

StoreInit ==
    /\ issues = {}
    /\ events = {}
    /\ comments = {}
    /\ issue_systems = {1}
    /\ people = {}
    /\ people_cache = EmptyMap
    /\ nextId = 1
    /\ err = "none"

\* the number of runs (IssueSystem generations) the model follows
MaxRuns == 2

\* the issue numbers the tracker hands out
IssueNumbers == {1, 2}

\* str(n) for the numbers the model uses
str(n) == <<"0", "1", "2", "3", "4", "5", "6", "7", "8", "9">>[n + 1]

\* a new backend object (BaseBackend.__init__) about to process(): no issue in
\* hand, nothing parsed, the first issue of the tracker's list next
SessionInit ==
    [issue_id |-> None, next |-> 1, done |-> FALSE,
     parsed_issues |-> [issues |-> EmptyMap, comments |-> EmptyMap, events |-> EmptyMap],
     old_issues |-> EmptyMap, issues_diff |-> EmptyMap]

\* IssueSHARK.start up to the backend's construction, for the first run of a project
RunInit ==
    /\ issue_system_id = 1
    /\ last_system_id = NoneId
    /\ refs = [x \in IssueNumbers |-> {}]
    /\ imported = [x \in IssueNumbers |-> {}]
    /\ session = SessionInit

\* values of raw text fields
St_NEW          == <<"N">>
St_ASSIGNED     == <<"A">>
Sev_major       == <<"m">>
Sev_enhancement == <<"e">>
P_1             == <<"P", "1">>
P_2             == <<"P", "2">>
K_ui            == <<"k">>

\* a raw bug with the given link fields
RawBz(id, blocks, depends_on, dupe_of) ==
    [id |-> id, summary |-> <<"t">>, status |-> St_NEW, severity |-> Sev_major,
     priority |-> P_2, type |-> None, component |-> <<"c">>, keywords |-> <<K_ui>>,
     assigned_to |-> U_bob, creator |-> U_jane1,
     blocks |-> blocks, depends_on |-> depends_on, dupe_of |-> dupe_of]

\* no call of an event or comment method yet
NoCall == [issue_id |-> 0, mongo_issue_id |-> NoneId, n |-> 0]

\* the tracker before anything has happened to its issues, and no call made yet
EnvInit ==
    /\ tracker = [created |-> [x \in IssueNumbers |-> RawBz(x, <<>>, <<>>, NoneId)],
                  live |-> [x \in IssueNumbers |-> RawBz(x, <<>>, <<>>, NoneId)],
                  hist |-> [x \in IssueNumbers |-> <<>>],
                  comments |-> [x \in IssueNumbers |-> <<>>]]
    /\ obs = [stored |-> {}, repeated |-> FALSE, last |-> NoCall, ids |-> {}, edited |-> FALSE,
              walked |-> {}]

(***************************************************************************)
(* Person resolution on its own: the calls a run makes to _get_people, in  *)
(* any order, with the details embedded in the raw record when the tracker *)
(* sent them (creator_detail, assigned_to_detail, a Jira author) and with  *)
(* the user name alone otherwise (history authors, comment creators).      *)
(***************************************************************************)
\* the (email, name) arguments of a call for username
EmbeddedDetail(username, detailed) ==
    LET user == UserDirectory(username)
    IN  IF detailed /\ user.found /\ user.email # NoneS
        THEN [email |-> user.email, name |-> user.real_name]
        ELSE [email |-> NoneS, name |-> NoneS]

BzGetPeople ==
    /\ backend = "bugzilla"
    /\ err = "none"
    /\ \E username \in Usernames, detailed \in BOOLEAN :
        LET a == EmbeddedDetail(username, detailed)
            r == Bz_get_people(DB, username, a.email, a.name)
        IN  /\ SetDB(r.db)
            /\ resolved' = resolved \cup {[username |-> username, id |-> r.id]}
    /\ UNCHANGED <<runVars, imported, envVars>>

JiraGetPeople ==
    /\ backend = "jira"
    /\ err = "none"
    /\ \E username \in Usernames, detailed \in BOOLEAN :
        LET a == EmbeddedDetail(username, detailed)
            r == Jira_get_people(DB, username, a.email, a.name)
        IN  /\ SetDB(r.db)
            /\ resolved' = resolved \cup {[username |-> username, id |-> r.id]}
    /\ UNCHANGED <<runVars, imported, envVars>>

InitPeople ==
    /\ StoreInit
    /\ RunInit
    /\ EnvInit
    /\ backend \in {"bugzilla", "jira"}
    /\ resolved = {}

NextPeople == BzGetPeople \/ JiraGetPeople

SpecPeople == InitPeople /\ [][NextPeople]_vars

\* the accounts of the directory that are one person written two ways: the same
\* name, one e-mail obfuscated with ' at ' and ' dot ', the other plain
SameObfuscated(u1, u2) ==
    /\ UserDirectory(u1).found
    /\ UserDirectory(u2).found
    /\ UserDirectory(u1).real_name = UserDirectory(u2).real_name
    /\ UserDirectory(u1).email = E_obf
    /\ UserDirectory(u2).email = E_plain

\* C10: two users with the same name whose e-mails differ only by the obfuscation
\* ' at ' for '@' and ' dot ' for '.' resolve to the same People id, and the store
\* holds a single People document for that (name, e-mail).
C10_SamePerson ==
    \A r1, r2 \in resolved :
        SameObfuscated(r1.username, r2.username) =>
            /\ r1.id = r2.id
            /\ Cardinality({p \in people : /\ p.name = UserDirectory(r1.username).real_name
                                           /\ p.email = E_plain}) = 1

C10_Witness ==
    \E r1, r2 \in resolved : SameObfuscated(r1.username, r2.username) /\ r1.id # NoneId

\* C11: a Person is identified by (name, e-mail) only: the store never holds two
\* People documents with the same (name, e-mail), and the username of a stored
\* Person stays the one its first resolution wrote, whichever usernames are
\* resolved to the same (name, e-mail) afterwards.
C11_FirstUsernameKept ==
    [][/\ \A p \in people' : \A q \in people' :
              (p.name = q.name /\ p.email = q.email) => p = q
       /\ \A p \in people : \A q \in people' : q.id = p.id => q.username = p.username]_vars

(***************************************************************************)
(* Issue documents of the backends that tag an issue with one generation   *)
(* (issue_system_id): bugzilla.py, bugzilla_old.py, jirabackend.py.  Of    *)
(* the mapped fields one of each kind is carried: title and status         *)
(* (strings), priority, labels and components (lists), issue_links, and    *)
(* the people references.  Text that a history item can carry (a title, a  *)
(* status, a priority, a label) is a sequence of characters; issue_type is *)
(* one of a few fixed words.  A list field whose order the code never fixes *)
(* (it is rebuilt with list(set(..))) is a bag; issue_links is a sequence. *)
(* The store sets no uniqueness constraint of its own on Issue documents:  *)
(* tests/test_bugzillabackend.py (test_update_with_change) stores two      *)
(* documents with the same external id under one issue system.             *)
(***************************************************************************)
\* Issue(issue_system_id=.., external_id=..) before it is saved
NewIssue(system_id, external_id) ==
    [id |-> NoneId, issue_system_id |-> system_id, external_id |-> external_id,
     title |-> NoneS, status |-> NoneS, priority |-> NoneS, issue_type |-> None,
     labels |-> EmptyBag, components |-> EmptyBag, issue_links |-> <<>>,
     assignee_id |-> NoneId, creator_id |-> NoneId, reporter_id |-> NoneId,
     platform |-> NoneS]

\* Document.save(): an insert under a fresh ObjectId, or the update of the stored
\* document with that id
SaveIssue(db, doc) ==
    IF db.err # "none" THEN [db |-> db, doc |-> doc]
    ELSE IF doc.id = NoneId
    THEN LET d == [doc EXCEPT !.id = db.nextId]
         IN  [db |-> [db EXCEPT !.issues = @ \cup {d}, !.nextId = @ + 1], doc |-> d]
    ELSE [db |-> [db EXCEPT !.issues = {i \in @ : i.id # doc.id} \cup {doc}], doc |-> doc]

\* Issue.objects(external_id=..): the issue system left out of the query
IssueQuery_any_system(db, system_id, external_id) ==
    {i \in db.issues : i.external_id = external_id}

\* Issue.objects(issue_system_id=.., external_id=..)
IssueQuery(db, system_id, external_id) ==
    {i \in db.issues : i.issue_system_id = system_id /\ i.external_id = external_id}

\* BugzillaBackend._get_issue_id_by_system_id(system_id): .get() returns the one
\* matching document, raises DoesNotExist for none (a stub is saved then) and
\* MultipleObjectsReturned for more than one
Bz_get_issue_id_by_system_id(db, system_id, ext) ==
    IF db.err # "none" THEN [db |-> db, id |-> NoneId]
    ELSE
    LET found == IssueQuery(db, system_id, str(ext))
        note(d, id, how) == [d EXCEPT !.refs[ext] = @ \cup {[id |-> id, how |-> how]}]
    IN  IF found = {} THEN LET sv == SaveIssue(db, NewIssue(system_id, str(ext)))
                           IN  [db |-> note(sv.db, sv.doc.id, "stub"), id |-> sv.doc.id]
        ELSE IF Cardinality(found) > 1
        THEN [db |-> note([db EXCEPT !.err = "MultipleObjectsReturned"], NoneId, "raised"),
              id |-> NoneId]
        ELSE [db |-> note(db, FirstDoc(found).id, "found"), id |-> FirstDoc(found).id]

\* BugzillaBackend._parse_issue_links for a list value: one link per target, each
\* target resolved in turn
RECURSIVE Bz_parse_issue_links(_, _, _, _, _)
Bz_parse_issue_links(db, system_id, targets, type, effect) ==
    IF targets = <<>> THEN [db |-> db, links |-> <<>>]
    ELSE LET r    == Bz_get_issue_id_by_system_id(db, system_id, Head(targets))
             rest == Bz_parse_issue_links(r.db, system_id, Tail(targets), type, effect)
         IN  [db |-> rest.db,
              links |-> <<[issue_id |-> r.id, type |-> type, effect |-> effect]>> \o rest.links]

\* the issue ids of a link list, each once, in the order they first occur
RECURSIVE FirstOccurrences(_, _)
FirstOccurrences(links, seen) ==
    IF links = <<>> THEN <<>>
    ELSE IF Head(links).issue_id \in seen THEN FirstOccurrences(Tail(links), seen)
    ELSE <<Head(links).issue_id>> \o
         FirstOccurrences(Tail(links), seen \cup {Head(links).issue_id})

\* list({v['issue_id']: v for v in current_value}.values()): one link per target,
\* at the place the target first occurs, holding the link that names it last
DedupeLinks(links) ==
    LET keys == FirstOccurrences(links, {})
        last(k) == links[CHOOSE i \in 1..Len(links) :
                            /\ links[i].issue_id = k
                            /\ \A j \in (i + 1)..Len(links) : links[j].issue_id # k]
    IN  [n \in 1..Len(keys) |-> last(keys[n])]

\* current_value.extend(result) and the de-duplication of an issue_links value
MergeLinks(current, result) ==
    IF Len(current \o result) > 0 THEN DedupeLinks(current \o result) ELSE <<>>

\* current_value.extend(result); list(set(current_value)) for the other list fields
MergeList(current, result) == SetToBag(BagToSet(current) \cup BagToSet(result))

\* a sequence of values as the list it is
RECURSIVE SeqToBag(_)
SeqToBag(seq) == IF seq = <<>> THEN EmptyBag ELSE SetToBag({Head(seq)}) (+) SeqToBag(Tail(seq))

\* BugzillaBackend._parse_author_details: the embedded details are passed on when
\* they hold an e-mail address, the user name alone otherwise
Bz_parse_author_details(db, username) ==
    LET a == EmbeddedDetail(username, TRUE)
    IN  Bz_get_people(db, username, a.email, a.name)

\* BugzillaBackend._parse_type_field
Bz_parse_type_field(raw) ==
    IF raw.type = None THEN (IF raw.severity = Sev_enhancement THEN "Enhancement" ELSE "Bug")
    ELSE IF raw.type = "defect" THEN "Bug"
    ELSE IF raw.type = "enhancement" THEN "Enhancement"
    ELSE raw.type

\* BugzillaBackend._transform_issue(bz_issue, bz_comments): the fields are set in
\* the order of at_mapping; a list field is merged with the value the document holds
Bz_transform_issue(db, system_id, raw) ==
    IF db.err # "none" THEN [db |-> db, doc |-> NewIssue(system_id, str(raw.id))]
    ELSE
    LET found == IssueQuery(db, system_id, str(raw.id))
        m0    == IF found = {} THEN NewIssue(system_id, str(raw.id)) ELSE FirstDoc(found)
        \* assigned_to_detail
        p1    == Bz_parse_author_details(db, raw.assigned_to)
        m1    == [m0 EXCEPT !.assignee_id = p1.id]
        \* blocks
        l2    == Bz_parse_issue_links(p1.db, system_id, raw.blocks, "Blocker", "blocks")
        m2    == [m1 EXCEPT !.issue_links = MergeLinks(@, l2.links)]
        \* component
        m3    == [m2 EXCEPT !.components = MergeList(@, SetToBag({raw.component}))]
        \* creator_detail
        p4    == Bz_parse_author_details(l2.db, raw.creator)
        m4    == [m3 EXCEPT !.creator_id = p4.id]
        \* depends_on
        l5    == Bz_parse_issue_links(p4.db, system_id, raw.depends_on, "Dependent", "depends on")
        m5    == [m4 EXCEPT !.issue_links = MergeLinks(@, l5.links)]
        \* dupe_of: a single target, or None
        l6    == Bz_parse_issue_links(l5.db, system_id,
                                      IF raw.dupe_of = NoneId THEN <<>> ELSE <<raw.dupe_of>>,
                                      "Duplicate", "duplicates")
        m6    == [m5 EXCEPT !.issue_links = MergeLinks(@, l6.links)]
        \* keywords, severity, status, summary, type; the reporter is the creator
        m7    == [m6 EXCEPT !.labels = MergeList(@, SeqToBag(raw.keywords)),
                            !.priority = raw.severity,
                            !.status = raw.status,
                            !.title = raw.summary,
                            !.issue_type = Bz_parse_type_field(raw),
                            !.reporter_id = m4.creator_id]
    IN  IF Cardinality(found) > 1
        THEN [db |-> [db EXCEPT !.err = "MultipleObjectsReturned"], doc |-> m0]
        ELSE SaveIssue(l6.db, m7)

(***************************************************************************)
(* Issue import and reference resolution of the Bugzilla backend over      *)
(* several runs: every run of IssueSHARK.start saves a new issue system    *)
(* and hands its id to a new backend object.                               *)
(***************************************************************************)
\* the raw bugs the tracker may return: bug 1 without links or blocking itself,
\* bug 2 without links, depending on bug 1 or a duplicate of bug 1
RawBzIssues ==
    {RawBz(1, <<>>, <<>>, NoneId), RawBz(1, <<1>>, <<>>, NoneId),
     RawBz(2, <<>>, <<>>, NoneId), RawBz(2, <<>>, <<1>>, NoneId), RawBz(2, <<>>, <<>>, 1)}

\* IssueSHARK.start: the newest issue system becomes last_system_id, a new one is
\* saved, and a new backend (empty people dictionary) is constructed for it
StartRun ==
    /\ issue_system_id < MaxRuns
    /\ last_system_id' = issue_system_id
    /\ issue_system_id' = issue_system_id + 1
    /\ people_cache' = EmptyMap
    /\ err' = "none"
    /\ refs' = [x \in IssueNumbers |-> {}]
    /\ imported' = [x \in IssueNumbers |-> {}]
    /\ session' = SessionInit
    /\ obs' = [obs EXCEPT !.walked = {}]
    /\ issue_systems' = issue_systems \cup {issue_system_id + 1}
    /\ UNCHANGED <<issues, events, comments, people, nextId, backend, resolved, tracker>>

\* one call of _transform_issue for a raw bug
BzTransformIssue(raw) ==
    /\ backend = "bugzilla"
    /\ err = "none"
    /\ LET r == Bz_transform_issue(DB, issue_system_id, raw)
       IN  /\ SetDB(r.db)
           /\ imported' = IF r.db.err = "none"
                          THEN [imported EXCEPT ![raw.id] = @ \cup {r.doc.id}]
                          ELSE imported
    /\ UNCHANGED <<runVars, resolved, envVars>>

\* one call of _get_issue_id_by_system_id for an external id
BzResolveRef(x) ==
    /\ backend = "bugzilla"
    /\ err = "none"
    /\ SetDB(Bz_get_issue_id_by_system_id(DB, issue_system_id, x).db)
    /\ UNCHANGED <<runVars, imported, resolved, envVars>>

InitRefs == StoreInit /\ RunInit /\ EnvInit /\ backend = "bugzilla" /\ resolved = {}

NextRefs ==
    \/ StartRun
    \/ \E raw \in RawBzIssues : BzTransformIssue(raw)
    \/ \E x \in IssueNumbers : BzResolveRef(x)

SpecRefs == InitRefs /\ [][NextRefs]_vars

\* the documents stored for an external id under an issue system
IssuesOf(system_id, x) == IssueQuery(DB, system_id, str(x))

\* C8: the store holds at most one Issue per (issue system id, external_id),
\* whatever imports and resolutions a run has made and whatever targets the raw
\* links name
C8_OneIssuePerExternalId ==
    \A d1 \in issues, d2 \in issues :
        (d1.issue_system_id = d2.issue_system_id /\ d1.external_id = d2.external_id)
            => d1.id = d2.id

\* C7: within a run every resolution of an external id X yields the same Issue id
\* and raises nothing, at most one of them created a stub, and an import of X
\* saved the document the resolutions name
C7_ResolutionStable ==
    \A x \in IssueNumbers :
        /\ Cardinality({r.id : r \in refs[x]}) <= 1
        /\ \A r \in refs[x] : r.how # "raised"
        /\ Cardinality({r \in refs[x] : r.how = "stub"}) <= 1
        /\ (refs[x] # {} /\ imported[x] # {}) => imported[x] = {r.id : r \in refs[x]}
        /\ Cardinality(IssuesOf(issue_system_id, x)) <= 1

\* C9: a resolution creates a stub only for an external id that no Issue of the
\* immediately prior generation carries; otherwise that Issue is reused and
\* belongs to the current generation as well
C9_PriorGenerationReused ==
    \A x \in IssueNumbers :
        (last_system_id # NoneId /\ IssuesOf(last_system_id, x) # {})
            => \A r \in refs[x] :
                   /\ r.how # "stub"
                   /\ r.id \in {d.id : d \in IssuesOf(last_system_id, x)}

(***************************************************************************)
(* Events of the Bugzilla backend.  Raw strings whose emptiness or digits   *)
(* matter are sequences of characters; the value of an Event is a record    *)
(* that says which kind of value it holds.                                  *)
(***************************************************************************)
NoVal == [kind |-> "none", text |-> <<>>, id |-> NoneId, type |-> None, effect |-> None,
          list |-> EmptyBag, links |-> <<>>]
StrVal(text) == [NoVal EXCEPT !.kind = "str", !.text = text]
PersonVal(id) == [NoVal EXCEPT !.kind = "person", !.id = id]
LinkVal(id, type, effect) == [NoVal EXCEPT !.kind = "link", !.id = id, !.type = type,
                                           !.effect = effect]

\* the external id a raw value names: str(system_id) of a one-digit id
DigitOf(text) == CHOOSE n \in 0..9 : <<str(n)>> = text

\* str(n) as characters, for the numbers the bounds allow
Chars(n) == IF n < 10 THEN <<str(n)>> ELSE <<str(n \div 10), str(n % 10)>>

\* BugzillaBackend.at_mapping: raw attribute -> attribute of the Issue document
Bz_at_mapping(name) ==
    CASE name = "assigned_to_detail" -> [found |-> TRUE, mongo |-> "assignee_id"]
      [] name = "blocks"             -> [found |-> TRUE, mongo |-> "issue_links"]
      [] name = "component"          -> [found |-> TRUE, mongo |-> "components"]
      [] name = "depends_on"         -> [found |-> TRUE, mongo |-> "issue_links"]
      [] name = "dupe_of"            -> [found |-> TRUE, mongo |-> "issue_links"]
      [] name = "keywords"           -> [found |-> TRUE, mongo |-> "labels"]
      [] name = "platform"           -> [found |-> TRUE, mongo |-> "platform"]
      [] name = "severity"           -> [found |-> TRUE, mongo |-> "priority"]
      [] name = "status"             -> [found |-> TRUE, mongo |-> "status"]
      [] name = "summary"            -> [found |-> TRUE, mongo |-> "title"]
      [] name = "type"               -> [found |-> TRUE, mongo |-> "issue_type"]
      [] OTHER                       -> [found |-> FALSE, mongo |-> name]

\* Event.objects(external_id=..., issue_id=...): the stored events with that key
EventQueryNone(db, external_id, issue_id) == {}

EventQuery(db, external_id, issue_id) ==
    {e \in db.events : e.external_id = external_id /\ e.issue_id = issue_id}

\* a new Event document, not saved yet
NewEvent(external_id, issue_id, created_at, author_id) ==
    [id |-> NoneId, external_id |-> external_id, issue_id |-> issue_id,
     created_at |-> created_at, author_id |-> author_id, status |-> None,
     old_value |-> NoVal, new_value |-> NoVal]

\* Below, CHOOSE out \in {F(v) : v \in {e}} : TRUE is F(e) with e evaluated once.

\* the branch of _process_event a raw change takes
Bz_event_kind(status, field_name) ==
    IF status = "assignee_id" THEN "person"
    ELSE IF field_name = "depends_on" THEN "depends_on"
    ELSE IF field_name = "blocks" THEN "blocks"
    ELSE "other"

\* the raw value as the value of the event, whatever it is
Bz_event_value_keeps_empty(db, system_id, kind, text) == [db |-> db, val |-> StrVal(text)]

\* the old/new value of an event for a raw value: nothing when the raw value is
\* None or empty, else _get_people(username) for a people event, a link to the
\* resolved issue for depends_on / blocks, the raw value otherwise
Bz_event_value(db, system_id, kind, text) ==
    IF text = NoneS \/ text = <<>> \/ db.err # "none" THEN [db |-> db, val |-> NoVal]
    ELSE IF kind = "person"
    THEN LET Person(r) == [db |-> r.db, val |-> PersonVal(r.id)]
         IN  CHOOSE out \in {Person(v) : v \in
                {Bz_get_people(db, text, NoneS, NoneS)}} : TRUE
    ELSE IF kind \in {"depends_on", "blocks"}
    THEN LET Link(r) == [db |-> r.db,
                         val |-> IF kind = "depends_on"
                                 THEN LinkVal(r.id, "Dependent", "depends on")
                                 ELSE LinkVal(r.id, "Blocker", "blocks")]
         IN  CHOOSE out \in {Link(v) : v \in
                {Bz_get_issue_id_by_system_id(db, system_id, DigitOf(text))}} : TRUE
    ELSE [db |-> db, val |-> StrVal(text)]

\* BugzillaBackend._process_event: a stored event is returned as it is (not new);
\* otherwise the event is built from the raw change, the added value first
Bz_process_event(db, system_id, unique_event_id, bz_event, mongo_issue_id, change_date, author_id) ==
    LET found      == EventQuery(db, unique_event_id, mongo_issue_id)
        bz_at_name == IF bz_event.field_name = "assigned_to" THEN "assigned_to_detail"
                      ELSE bz_event.field_name
        e0         == [NewEvent(unique_event_id, mongo_issue_id, change_date, author_id)
                           EXCEPT !.status = Bz_at_mapping(bz_at_name).mongo]
        kind       == Bz_event_kind(e0.status, bz_event.field_name)
        Removed(added) ==
            LET Done(removed) ==
                    [db |-> removed.db,
                     event |-> [e0 EXCEPT !.new_value = added.val, !.old_value = removed.val],
                     is_new |-> removed.db.err = "none"]
            IN  CHOOSE out \in {Done(v) : v \in
                {Bz_event_value(added.db, system_id, kind, bz_event.removed)}} : TRUE
    IN  IF db.err # "none" THEN [db |-> db, event |-> e0, is_new |-> FALSE]
        ELSE IF Cardinality(found) > 1
        THEN [db |-> [db EXCEPT !.err = "MultipleObjectsReturned"], event |-> e0, is_new |-> FALSE]
        ELSE IF found # {} THEN [db |-> db, event |-> FirstDoc(found), is_new |-> FALSE]
        ELSE CHOOSE out \in {Removed(v) : v \in
                {Bz_event_value(db, system_id, kind, bz_event.added)}} : TRUE

\* Event.objects.insert(events_to_insert): every document gets its id on insertion
RECURSIVE InsertEvents(_, _)
InsertEvents(db, docs) ==
    IF docs = <<>> THEN db
    ELSE InsertEvents([db EXCEPT !.events = @ \cup {[Head(docs) EXCEPT !.id = db.nextId]},
                                 !.nextId = @ + 1],
                      Tail(docs))

\* str(issue['id']) + "%%" + str(i) + "%%" + str(j)
Bz_unique_event_id(issue_id, i, j) ==
    Chars(issue_id) \o <<"%", "%">> \o Chars(i) \o <<"%", "%">> \o Chars(j)

\* the inner loop of _store_events: the changes of history number j, from change i on
RECURSIVE Bz_store_changes(_, _, _, _, _, _, _, _)
Bz_store_changes(db, system_id, changes, i, j, issue_id, mongo_issue_id, who) ==
    IF changes = <<>> THEN [db |-> db, new |-> <<>>]
    ELSE LET Rest(r) ==
                 LET Join(rest) == [db |-> rest.db,
                                    new |-> (IF r.is_new THEN <<r.event>> ELSE <<>>) \o rest.new]
                 IN  CHOOSE out \in {Join(v) : v \in
                {Bz_store_changes(r.db, system_id, Tail(changes), i + 1, j, issue_id, mongo_issue_id, who)}} : TRUE
         IN  CHOOSE out \in {Rest(v) : v \in
                {Bz_process_event(db, system_id, Bz_unique_event_id(issue_id, i, j), Head(changes), mongo_issue_id, who.when, who.author_id)}} : TRUE

\* the outer loop of _store_events: the histories in the order given, from number j on
RECURSIVE Bz_store_histories(_, _, _, _, _, _)
Bz_store_histories(db, system_id, histories, j, issue_id, mongo_issue_id) ==
    IF histories = <<>> THEN [db |-> db, new |-> <<>>]
    ELSE LET Changes(p) ==
                 LET Rest(r) ==
                         LET Join(rest) == [db |-> rest.db, new |-> r.new \o rest.new]
                         IN  CHOOSE out \in {Join(v) : v \in
                {Bz_store_histories(r.db, system_id, Tail(histories), j + 1, issue_id, mongo_issue_id)}} : TRUE
                 IN  CHOOSE out \in {Rest(v) : v \in
                {Bz_store_changes(p.db, system_id, Head(histories).changes, 0, j, issue_id, mongo_issue_id, [when |-> Head(histories).when, author_id |-> p.id])}} : TRUE
         IN  CHOOSE out \in {Changes(v) : v \in
                {Bz_get_people(db, Head(histories).who, NoneS, NoneS)}} : TRUE

\* BugzillaBackend._store_events(histories, issue, mongo_issue): the new events are
\* inserted together at the end, unless an exception ended the call before
Bz_store_events(db, system_id, histories, issue_id, mongo_issue_id) ==
    LET Insert(r) == IF r.db.err # "none" THEN r.db ELSE InsertEvents(r.db, r.new)
    IN  CHOOSE out \in {Insert(v) : v \in
                {Bz_store_histories(db, system_id, histories, 0, issue_id, mongo_issue_id)}} : TRUE

(***************************************************************************)
(* _store_events against a tracker whose histories grow: the history of an *)
(* issue is append-only, every entry one more than the last.               *)
(***************************************************************************)
MaxHistory == 2

BzChange(field_name, removed, added) ==
    [field_name |-> field_name, removed |-> removed, added |-> added]

\* what one history entry may hold: who made it and the changes made together
BzHistoryEntries ==
    {[who |-> U_bob,   changes |-> <<BzChange("status", St_NEW, St_ASSIGNED),
                                     BzChange("cc", <<>>, <<"x">>)>>],
     [who |-> U_jane1, changes |-> <<BzChange("assigned_to", <<>>, U_bob),
                                     BzChange("depends_on", <<>>, <<"2">>)>>]}

\* the tracker records one more change of issue x
TrackerAddHistory(x, entry) ==
    /\ Len(tracker.hist[x]) < MaxHistory
    /\ tracker' = [tracker EXCEPT !.hist[x] =
                       Append(@, [when |-> Len(@) + 1, who |-> entry.who,
                                  changes |-> entry.changes])]
    /\ obs' = [obs EXCEPT !.stored = {c \in @ : c.issue_id # x}]
    /\ UNCHANGED <<storeVars, peopleVars, nextId, runVars, refs, imported, session,
                   resolved, err>>

\* the external ids _store_events computes for the items of histories
Bz_item_ids(x, histories) ==
    {[issue |-> x, when |-> histories[j].when, item |-> i, run |-> issue_system_id,
      external_id |-> Bz_unique_event_id(x, i - 1, j - 1)] :
        <<j, i>> \in {<<j, i>> \in (DOMAIN histories) \X (1..2) :
                         i \in DOMAIN histories[j].changes}}

\* a call, noted with whether the same call has completed before; stored holds
\* the completed calls that can still be made again (the tracker's history of
\* the issue has not grown since)
NoteCall(o, c, ok, ids) ==
    [o EXCEPT !.last = c,
              !.stored = IF ok THEN @ \cup {c} ELSE @,
              !.repeated = ok /\ c \in o.stored,
              !.ids = @ \cup ids]

\* one call of _store_events(histories, issue, mongo_issue) with the history the
\* tracker returns for the issue and the document _transform_issue returned
BzStoreEvents(x, mongo_issue) ==
    /\ backend = "bugzilla"
    /\ err = "none"
    /\ mongo_issue \in IssuesOf(issue_system_id, x)
    /\ LET histories == tracker.hist[x]
           d == Bz_store_events(DB, issue_system_id, histories, x, mongo_issue.id)
           c == [issue_id |-> x, mongo_issue_id |-> mongo_issue.id, n |-> Len(histories)]
       IN  /\ SetDB(d)
           /\ obs' = NoteCall(obs, c, d.err = "none", Bz_item_ids(x, histories))
    /\ UNCHANGED <<runVars, imported, resolved, tracker, session>>

InitEvents == StoreInit /\ RunInit /\ EnvInit /\ backend = "bugzilla" /\ resolved = {}

NextEvents ==
    \/ \E raw \in {RawBz(1, <<>>, <<>>, NoneId), RawBz(2, <<>>, <<1>>, NoneId)} :
           BzTransformIssue(raw)
    \/ \E x \in IssueNumbers, entry \in BzHistoryEntries : TrackerAddHistory(x, entry)
    \/ \E x \in IssueNumbers, d \in issues : BzStoreEvents(x, d)

SpecEvents == InitEvents /\ [][NextEvents]_vars

\* no two Events share (issue_id, external_id)
EventKeyUnique ==
    \A e1 \in events, e2 \in events :
        (e1.issue_id = e2.issue_id /\ e1.external_id = e2.external_id) => e1.id = e2.id

\* C1: a further call of _store_events with a history it has already stored for
\* the issue changes no Event, and (issue_id, external_id) is unique among the
\* Events of every state
C1_StoreEventsIdempotent ==
    [][/\ obs'.last \in obs.stored => events' = events
       /\ EventKeyUnique']_vars

\* a history with changes has been stored and then stored once more
C1_Witness ==
    /\ obs.repeated
    /\ obs.last.n > 0
    /\ \E e \in events : e.issue_id = obs.last.mongo_issue_id

(***************************************************************************)
(* Comments.  The tracker keeps the comments of an issue in the order they  *)
(* were written and gives each an id of its own (here: ten times the issue  *)
(* number plus the place); Bugzilla counts them from 0, the description.    *)
(* A comment's text may be edited on the tracker.                           *)
(***************************************************************************)
MaxComments == 3

CommentTexts == {"a", "b"}
CommentAuthors == {U_jane1, U_bob}

\* the number of comments on the tracker
RECURSIVE CountComments(_)
CountComments(xs) ==
    IF xs = {} THEN 0
    ELSE LET x == CHOOSE y \in xs : TRUE
         IN  Len(tracker.comments[x]) + CountComments(xs \ {x})

TotalComments == CountComments(IssueNumbers)

\* a comment is written for issue x
TrackerAddComment(x, creator, text) ==
    /\ TotalComments < MaxComments
    /\ tracker' = [tracker EXCEPT
                       !.comments[x] = Append(@, [id |-> 10 * x + Len(@), count |-> Len(@),
                                                  creator |-> creator, text |-> text])]
    /\ UNCHANGED <<storeVars, peopleVars, nextId, runVars, refs, imported, session, obs,
                   resolved, err>>

\* the text of a comment of issue x is edited
TrackerEditComment(x, k, text) ==
    /\ k \in DOMAIN tracker.comments[x]
    /\ tracker.comments[x][k].text # text
    /\ tracker' = [tracker EXCEPT !.comments[x][k].text = text]
    /\ UNCHANGED <<storeVars, peopleVars, nextId, runVars, refs, imported, session, obs,
                   resolved, err>>

\* IssueComment.objects(external_id=..., issue_id=...): the stored comments with that key
CommentQueryNone(db, external_id, issue_id) == {}

CommentQuery(db, external_id, issue_id) ==
    {c \in db.comments : c.external_id = external_id /\ c.issue_id = issue_id}

\* IssueComment.objects.insert(comments_to_insert)
RECURSIVE InsertComments(_, _)
InsertComments(db, docs) ==
    IF docs = <<>> THEN db
    ELSE InsertComments([db EXCEPT !.comments = @ \cup {[Head(docs) EXCEPT !.id = db.nextId]},
                                   !.nextId = @ + 1],
                        Tail(docs))

\* the loop of BugzillaBackend._process_comments; i is the number of comments
\* seen before that are not the description
RECURSIVE Bz_comments_loop(_, _, _, _)
Bz_comments_loop(db, mongo_issue_id, raw, i) ==
    IF raw = <<>> \/ db.err # "none" THEN [db |-> db, new |-> <<>>]
    ELSE IF Head(raw).count = 0 THEN Bz_comments_loop(db, mongo_issue_id, Tail(raw), i)
    ELSE
    LET unique_comment_id == Chars(mongo_issue_id) \o <<"%">> \o Chars(i)
        found == CommentQuery(db, unique_comment_id, mongo_issue_id)
        p     == Bz_get_people(db, Head(raw).creator, NoneS, NoneS)
        doc   == [id |-> NoneId, external_id |-> unique_comment_id, issue_id |-> mongo_issue_id,
                  created_at |-> Head(raw).id, author_id |-> p.id, comment |-> Head(raw).text]
    IN  IF Cardinality(found) > 1
        THEN [db |-> [db EXCEPT !.err = "MultipleObjectsReturned"], new |-> <<>>]
        ELSE IF found # {} THEN Bz_comments_loop(db, mongo_issue_id, Tail(raw), i + 1)
        ELSE LET rest == Bz_comments_loop(p.db, mongo_issue_id, Tail(raw), i + 1)
             IN  [db |-> rest.db, new |-> <<doc>> \o rest.new]

\* BugzillaBackend._process_comments(mongo_issue_id, comments)
Bz_process_comments(db, mongo_issue_id, raw) ==
    LET r == Bz_comments_loop(db, mongo_issue_id, raw, 0)
    IN  IF r.db.err # "none" THEN r.db ELSE InsertComments(r.db, r.new)

\* the loop of JiraBackend._process_comments: the key is the tracker's comment id
RECURSIVE Jira_comments_loop(_, _, _)
Jira_comments_loop(db, issue_id, raw) ==
    IF raw = <<>> \/ db.err # "none" THEN [db |-> db, new |-> <<>>]
    ELSE
    LET external_id == Chars(Head(raw).id)
        found == CommentQuery(db, external_id, issue_id)
        a     == EmbeddedDetail(Head(raw).creator, TRUE)
        p     == Jira_get_people(db, Head(raw).creator, a.email, a.name)
        doc   == [id |-> NoneId, external_id |-> external_id, issue_id |-> issue_id,
                  created_at |-> Head(raw).id, author_id |-> p.id, comment |-> Head(raw).text]
    IN  IF Cardinality(found) > 1
        THEN [db |-> [db EXCEPT !.err = "MultipleObjectsReturned"], new |-> <<>>]
        ELSE IF found # {} THEN Jira_comments_loop(db, issue_id, Tail(raw))
        ELSE LET rest == Jira_comments_loop(p.db, issue_id, Tail(raw))
             IN  [db |-> rest.db, new |-> <<doc>> \o rest.new]

\* JiraBackend._process_comments(issue, issue_id)
Jira_process_comments(db, issue_id, raw) ==
    LET r == Jira_comments_loop(db, issue_id, raw)
    IN  IF r.db.err # "none" THEN r.db ELSE InsertComments(r.db, r.new)

\* JiraBackend._get_issue_id_by_system_id(system_id)
Jira_get_issue_id_by_system_id(db, system_id, ext) ==
    Bz_get_issue_id_by_system_id(db, system_id, ext)

\* one call of JiraBackend._get_issue_id_by_system_id for an issue key
JiraResolveRef(x) ==
    /\ backend = "jira"
    /\ err = "none"
    /\ SetDB(Jira_get_issue_id_by_system_id(DB, issue_system_id, x).db)
    /\ UNCHANGED <<runVars, imported, resolved, envVars>>

\* a comment stored for the issue differs from what the tracker now returns for it
EditedSinceStored(mongo_issue_id, raw) ==
    \E c \in comments, k \in DOMAIN raw :
        /\ c.issue_id = mongo_issue_id
        /\ c.created_at = raw[k].id
        /\ c.comment # raw[k].text

\* one call of BugzillaBackend._process_comments with the comments the tracker
\* returns for the issue
BzProcessComments(x, mongo_issue) ==
    /\ backend = "bugzilla"
    /\ err = "none"
    /\ mongo_issue \in IssuesOf(issue_system_id, x)
    /\ SetDB(Bz_process_comments(DB, mongo_issue.id, tracker.comments[x]))
    /\ obs' = [obs EXCEPT !.edited = @ \/ EditedSinceStored(mongo_issue.id, tracker.comments[x])]
    /\ UNCHANGED <<runVars, imported, resolved, tracker, session>>

\* one call of JiraBackend._process_comments for the issue as the tracker returns it
JiraProcessComments(x, mongo_issue) ==
    /\ backend = "jira"
    /\ err = "none"
    /\ mongo_issue \in IssuesOf(issue_system_id, x)
    /\ SetDB(Jira_process_comments(DB, mongo_issue.id, tracker.comments[x]))
    /\ obs' = [obs EXCEPT !.edited = @ \/ EditedSinceStored(mongo_issue.id, tracker.comments[x])]
    /\ UNCHANGED <<runVars, imported, resolved, tracker, session>>

InitComments ==
    StoreInit /\ RunInit /\ EnvInit /\ backend \in {"bugzilla", "jira"} /\ resolved = {}

NextComments ==
    \/ \E x \in IssueNumbers : BzResolveRef(x)
    \/ \E x \in IssueNumbers : JiraResolveRef(x)
    \/ \E x \in IssueNumbers, creator \in CommentAuthors, text \in CommentTexts :
           TrackerAddComment(x, creator, text)
    \/ \E x \in IssueNumbers, k \in 1..MaxComments, text \in CommentTexts :
           TrackerEditComment(x, k, text)
    \/ \E x \in IssueNumbers, d \in issues : BzProcessComments(x, d)
    \/ \E x \in IssueNumbers, d \in issues : JiraProcessComments(x, d)

SpecComments == InitComments /\ [][NextComments]_vars

\* no two Comments share (issue_id, external_id)
CommentKeyUnique ==
    \A c1 \in comments, c2 \in comments :
        (c1.issue_id = c2.issue_id /\ c1.external_id = c2.external_id) => c1.id = c2.id

\* C4: whatever is processed again, every stored Comment stays as it is and
\* (issue_id, external_id) stays unique among the Comments: a Comment is only
\* inserted under a key no stored Comment has
C4_CommentsImmutable ==
    [][/\ comments \subseteq comments'
       /\ CommentKeyUnique']_vars

\* the comments of an issue were processed again after the tracker's text of a
\* stored comment had changed
C4_Witness ==
    /\ obs.edited
    /\ \E c \in comments, x \in IssueNumbers :
           \E k \in DOMAIN tracker.comments[x] :
               c.created_at = tracker.comments[x][k].id /\ c.comment # tracker.comments[x][k].text
(***************************************************************************)
(* The Bugzilla backend of bugzilla_old.py (identifier bugzillaOld).  Its  *)
(* _process_issue transforms the live bug, walks the history from the      *)
(* newest entry to the oldest, sets the in-memory Issue back change by     *)
(* change while it builds the events, saves the Issue, inserts the new     *)
(* events and stores the comments.                                         *)
(***************************************************************************)
\* at_mapping of bugzilla_old.py: raw attribute -> attribute of the Issue document
Old_at_mapping(name) ==
    CASE name = "assigned_to_detail" -> "assignee_id"
      [] name = "blocks"             -> "issue_links"
      [] name = "component"          -> "components"
      [] name = "depends_on"         -> "issue_links"
      [] name = "dupe_of"            -> "issue_links"
      [] name = "keywords"           -> "labels"
      [] name = "platform"           -> "platform"
      [] name = "severity"           -> "priority"
      [] name = "status"             -> "status"
      [] name = "summary"            -> "title"
      [] OTHER                       -> name

\* _get_people of bugzilla_old.py reads user['email'] where bugzilla.py reads
\* user.get('email'); the directory's records carry the key, with None for an
\* address that is withheld
Old_get_people(db, username, email0, name0) == Bz_get_people(db, username, email0, name0)

Old_parse_author_details(db, username) ==
    LET a == EmbeddedDetail(username, TRUE)
    IN  Old_get_people(db, username, a.email, a.name)

\* _get_issue_id_by_system_id of bugzilla_old.py
Old_get_issue_id_by_system_id(db, system_id, ext) ==
    Bz_get_issue_id_by_system_id(db, system_id, ext)

\* type_mapping of _parse_issue_links and _set_back_issue_links
Old_type_mapping(at_name_bz) ==
    CASE at_name_bz = "blocks"     -> "Blocker"
      [] at_name_bz = "dupe_of"    -> "Duplicate"
      [] at_name_bz = "depends_on" -> "Dependent"

\* _parse_issue_links of bugzilla_old.py: the effect of a link is the raw name
Old_parse_issue_links(db, system_id, targets, at_name_bz) ==
    Bz_parse_issue_links(db, system_id, targets, Old_type_mapping(at_name_bz), at_name_bz)

\* _transform_issue of bugzilla_old.py: the stored Issue of this issue system or
\* a new one, every mapped attribute set from the raw bug in the order of
\* at_mapping (list attributes merged with what is stored), then saved
Old_transform_issue(db, system_id, raw) ==
    IF db.err # "none" THEN [db |-> db, doc |-> NewIssue(system_id, str(raw.id))]
    ELSE
    LET found == IssueQuery(db, system_id, str(raw.id))
        m0    == IF found = {} THEN NewIssue(system_id, str(raw.id)) ELSE FirstDoc(found)
        p1    == Old_parse_author_details(db, raw.assigned_to)
        l2    == Old_parse_issue_links(p1.db, system_id, raw.blocks, "blocks")
        p4    == Old_parse_author_details(l2.db, raw.creator)
        l5    == Old_parse_issue_links(p4.db, system_id, raw.depends_on, "depends_on")
        l6    == Old_parse_issue_links(l5.db, system_id,
                                       IF raw.dupe_of = NoneId THEN <<>> ELSE <<raw.dupe_of>>,
                                       "dupe_of")
        m7    == [m0 EXCEPT !.assignee_id = p1.id,
                            !.issue_links = MergeLinks(MergeLinks(MergeLinks(@, l2.links),
                                                                  l5.links), l6.links),
                            !.components = MergeList(@, SetToBag({raw.component})),
                            !.creator_id = p4.id,
                            !.labels = MergeList(@, SeqToBag(raw.keywords)),
                            !.priority = raw.severity,
                            !.status = raw.status,
                            !.title = raw.summary,
                            !.issue_type = IF raw.severity = Sev_enhancement
                                           THEN "Enhancement" ELSE "Bug"]
    IN  IF Cardinality(found) > 1
        THEN [db |-> [db EXCEPT !.err = "MultipleObjectsReturned"], doc |-> m0]
        ELSE SaveIssue(l6.db, m7)

\* the attribute takes the added value
Old_set_back_string_field_added(mongo_issue, mongo_at_name, bz_event) ==
    [mongo_issue EXCEPT ![mongo_at_name] = bz_event.added]

\* _set_back_string_field: the attribute takes the removed value
Old_set_back_string_field(mongo_issue, mongo_at_name, bz_event) ==
    [mongo_issue EXCEPT ![mongo_at_name] = bz_event.removed]

\* _set_back_priority: the type follows the removed value, the priority takes it
Old_set_back_priority(mongo_issue, mongo_at_name, bz_event) ==
    [mongo_issue EXCEPT !.issue_type = IF bz_event.removed = Sev_enhancement
                                       THEN "Enhancement" ELSE "Bug",
                        !.priority = bz_event.removed]

\* _set_back_array_field: the added value is removed once (the whole list is
\* cleared when it is not there), the removed value is appended unless present
Old_set_back_array_field(mongo_issue, mongo_at_name, bz_event) ==
    LET item_list == mongo_issue[mongo_at_name]
        l1 == IF bz_event.added = <<>> THEN item_list
              ELSE IF BagIn(bz_event.added, item_list)
              THEN item_list (-) SetToBag({bz_event.added})
              ELSE EmptyBag
        l2 == IF bz_event.removed # <<>> /\ ~BagIn(bz_event.removed, l1)
              THEN l1 (+) SetToBag({bz_event.removed})
              ELSE l1
    IN  [mongo_issue EXCEPT ![mongo_at_name] = l2]

\* _set_back_assignee: the person of the removed user name, or None
Old_set_back_assignee(db, mongo_issue, mongo_at_name, bz_event) ==
    IF bz_event.removed # <<>>
    THEN LET Set(p) == [db |-> p.db, issue |-> [mongo_issue EXCEPT ![mongo_at_name] = p.id]]
         IN  CHOOSE out \in {Set(v) : v \in
                {Old_get_people(db, bz_event.removed, NoneS, NoneS)}} : TRUE
    ELSE [db |-> db, issue |-> [mongo_issue EXCEPT ![mongo_at_name] = NoneId]]

\* the list without its element at index (del item_list[index])
DelAt(list, index) == SubSeq(list, 1, index - 1) \o SubSeq(list, index + 1, Len(list))

\* _set_back_issue_links: the removed target is appended unless a link to it is
\* there; the first link to the added target is deleted, if there is one
Old_set_back_issue_links(db, system_id, mongo_issue, mongo_at_name, bz_event) ==
    LET Added(st) ==
            IF bz_event.added = <<>> \/ st.db.err # "none" THEN st
            ELSE LET Del(r) ==
                         LET hits == {k \in DOMAIN st.issue.issue_links :
                                          st.issue.issue_links[k].issue_id = r.id}
                         IN  [db |-> r.db,
                              issue |-> IF hits = {} \/ r.db.err # "none" THEN st.issue
                                        ELSE [st.issue EXCEPT ![mongo_at_name] =
                                                DelAt(@, CHOOSE k \in hits :
                                                             \A o \in hits : k <= o)]]
                 IN  CHOOSE out \in {Del(v) : v \in
                        {Old_get_issue_id_by_system_id(st.db, system_id,
                                                       DigitOf(bz_event.added))}} : TRUE
        Removed(r) ==
            [db |-> r.db,
             issue |-> IF r.db.err # "none"
                          \/ \E k \in DOMAIN mongo_issue.issue_links :
                                 mongo_issue.issue_links[k].issue_id = r.id
                       THEN mongo_issue
                       ELSE [mongo_issue EXCEPT ![mongo_at_name] =
                               Append(@, [issue_id |-> r.id,
                                          type |-> Old_type_mapping(bz_event.field_name),
                                          effect |-> bz_event.field_name])]]
    IN  IF bz_event.removed = <<>> THEN Added([db |-> db, issue |-> mongo_issue])
        ELSE CHOOSE out \in {Added(Removed(v)) : v \in
                {Old_get_issue_id_by_system_id(db, system_id,
                                               DigitOf(bz_event.removed))}} : TRUE

\* the attributes of an Issue document and the keys of function_mapping in
\* _set_back_mongo_issue, among the attributes carried here
IssueAttributes == DOMAIN NewIssue(NoneId, "0")
Old_function_mapping ==
    {"title", "priority", "status", "components", "labels", "assignee_id", "issue_links",
     "platform"}

\* _set_back_mongo_issue: the set-back function of the attribute is applied; an
\* attribute without one raises KeyError
Old_set_back_mongo_issue(db, system_id, mongo_issue, mongo_at_name, bz_event) ==
    IF mongo_at_name \notin Old_function_mapping
    THEN [db |-> [db EXCEPT !.err = "KeyError"], issue |-> mongo_issue]
    ELSE IF mongo_at_name \in {"title", "status", "platform"}
    THEN [db |-> db, issue |-> Old_set_back_string_field(mongo_issue, mongo_at_name, bz_event)]
    ELSE IF mongo_at_name = "priority"
    THEN [db |-> db, issue |-> Old_set_back_priority(mongo_issue, mongo_at_name, bz_event)]
    ELSE IF mongo_at_name \in {"components", "labels"}
    THEN [db |-> db, issue |-> Old_set_back_array_field(mongo_issue, mongo_at_name, bz_event)]
    ELSE IF mongo_at_name = "assignee_id"
    THEN Old_set_back_assignee(db, mongo_issue, mongo_at_name, bz_event)
    ELSE Old_set_back_issue_links(db, system_id, mongo_issue, mongo_at_name, bz_event)

\* copy.deepcopy(getattr(mongo_issue, attribute)) as the value of an event
ListVal(list) == [NoVal EXCEPT !.kind = "list", !.list = list]
LinksVal(links) == [NoVal EXCEPT !.kind = "links", !.links = links]
AttributeVal(mongo_issue, at) ==
    IF at \in {"title", "status", "priority", "platform"} THEN StrVal(mongo_issue[at])
    ELSE IF at \in {"components", "labels"} THEN ListVal(mongo_issue[at])
    ELSE IF at = "issue_links" THEN LinksVal(mongo_issue[at])
    ELSE IF at = "assignee_id" THEN PersonVal(mongo_issue[at])
    ELSE NoVal

\* _process_event of bugzilla_old.py: the stored event with the key, or a new one
\* (is_new); its status is the mapped attribute, or the raw name when there is no
\* mapping; when the Issue has an attribute of that name the issue is set back and
\* the event takes the attribute's value before and after, else the raw values
Old_process_event(db, system_id, unique_event_id, bz_event, mongo_issue, change_date, author_id) ==
    LET found == EventQuery(db, unique_event_id, mongo_issue.id)
        e0    == IF found # {} THEN FirstDoc(found)
                 ELSE NewEvent(unique_event_id, mongo_issue.id, change_date, author_id)
        status == Old_at_mapping(IF bz_event.field_name = "assigned_to"
                                 THEN "assigned_to_detail" ELSE bz_event.field_name)
        Back(r) == [db |-> r.db, issue |-> r.issue, is_new |-> found = {},
                    event |-> [e0 EXCEPT !.status = status,
                                         !.new_value = AttributeVal(mongo_issue, status),
                                         !.old_value = AttributeVal(r.issue, status)]]
    IN  IF db.err # "none"
        THEN [db |-> db, issue |-> mongo_issue, is_new |-> FALSE, event |-> e0]
        ELSE IF Cardinality(found) > 1
        THEN [db |-> [db EXCEPT !.err = "MultipleObjectsReturned"], issue |-> mongo_issue,
              is_new |-> FALSE, event |-> e0]
        ELSE IF status \in IssueAttributes
        THEN CHOOSE out \in {Back(v) : v \in
                {Old_set_back_mongo_issue(db, system_id, mongo_issue, status, bz_event)}} : TRUE
        ELSE [db |-> db, issue |-> mongo_issue, is_new |-> found = {},
              event |-> [e0 EXCEPT !.status = status,
                                   !.new_value = StrVal(bz_event.added),
                                   !.old_value = StrVal(bz_event.removed)]]

\* str(issue['id']) + "%%" + str(i) + "%%" + str(j) in bugzilla_old.py
Old_unique_event_id(issue_id, i, j) ==
    Chars(issue_id) \o <<"%", "%">> \o Chars(i) \o <<"%", "%">> \o Chars(j)

\* the inner loop of _process_issue: the changes of one history entry in the order
\* given, from change i on; who holds the entry's date and author
RECURSIVE Old_walk_changes(_, _, _, _, _, _, _, _)
Old_walk_changes(db, system_id, changes, i, j, issue_id, mongo_issue, who) ==
    IF changes = <<>> \/ db.err # "none" THEN [db |-> db, issue |-> mongo_issue, new |-> <<>>]
    ELSE LET Rest(r) ==
                 LET Join(rest) == [db |-> rest.db, issue |-> rest.issue,
                                    new |-> (IF r.is_new THEN <<r.event>> ELSE <<>>) \o rest.new]
                 IN  CHOOSE out \in {Join(v) : v \in
                        {Old_walk_changes(r.db, system_id, Tail(changes), i + 1, j, issue_id,
                                          r.issue, who)}} : TRUE
         IN  CHOOSE out \in {Rest(v) : v \in
                {Old_process_event(db, system_id, Old_unique_event_id(issue_id, i, j),
                                   Head(changes), mongo_issue, who.when, who.author_id)}} : TRUE

\* the histories in the order the tracker returns them, oldest first
Reversed_oldest_first(seq) == seq

\* reversed(histories)
Reversed(seq) == [k \in 1..Len(seq) |-> seq[Len(seq) + 1 - k]]

\* the outer loop of _process_issue over reversed(histories), from number j on
RECURSIVE Old_walk_histories(_, _, _, _, _, _)
Old_walk_histories(db, system_id, histories, j, issue_id, mongo_issue) ==
    IF histories = <<>> \/ db.err # "none" THEN [db |-> db, issue |-> mongo_issue, new |-> <<>>]
    ELSE LET Changes(p) ==
                 LET Rest(r) ==
                         LET Join(rest) == [db |-> rest.db, issue |-> rest.issue,
                                            new |-> r.new \o rest.new]
                         IN  CHOOSE out \in {Join(v) : v \in
                                {Old_walk_histories(r.db, system_id, Tail(histories), j + 1,
                                                    issue_id, r.issue)}} : TRUE
                 IN  CHOOSE out \in {Rest(v) : v \in
                        {Old_walk_changes(p.db, system_id, Head(histories).changes, 0, j,
                                          issue_id, mongo_issue,
                                          [when |-> Head(histories).when,
                                           author_id |-> p.id])}} : TRUE
         IN  CHOOSE out \in {Changes(v) : v \in
                {Old_get_people(db, Head(histories).who, NoneS, NoneS)}} : TRUE

\* _process_comments of bugzilla_old.py
Old_process_comments(db, mongo_issue_id, raw) == Bz_process_comments(db, mongo_issue_id, raw)

\* _process_issue of bugzilla_old.py
Old_process_issue(db, system_id, raw, bz_comments, histories) ==
    LET Walked(w) ==
            IF w.db.err # "none" THEN w.db
            ELSE LET Stored(d) ==
                         Old_process_comments(InsertEvents(d, w.new), w.issue.id, bz_comments)
                 IN  CHOOSE out \in {Stored(v) : v \in {SaveIssue(w.db, w.issue).db}} : TRUE
        Transformed(t) ==
            IF t.db.err # "none" THEN t.db
            ELSE CHOOSE out \in {Walked(v) : v \in
                    {Old_walk_histories(t.db, system_id, Reversed(histories), 0, raw.id,
                                        t.doc)}} : TRUE
    IN  CHOOSE out \in {Transformed(v) : v \in {Old_transform_issue(db, system_id, raw)}} : TRUE

(***************************************************************************)
(* _process_issue of bugzilla_old.py against a tracker whose bugs change:  *)
(* every edit of a bug changes its live fields and appends one entry, with *)
(* the changes made together, to its history.  The history is therefore    *)
(* consistent with the live bug and with the bug as it was created.        *)
(***************************************************************************)
MaxChanges == 2

\* the changes an edit may make to a raw field
RawChanges ==
    {BzChange("status", St_NEW, St_ASSIGNED),
     BzChange("severity", Sev_major, Sev_enhancement),
     BzChange("priority", P_2, P_1),
     BzChange("assigned_to", U_bob, U_jane2),
     BzChange("keywords", K_ui, <<>>), BzChange("keywords", <<>>, K_ui)}
    \cup UNION {{BzChange("depends_on", <<>>, Chars(t)), BzChange("depends_on", Chars(t), <<>>)} :
                    t \in IssueNumbers}

\* the changes that are made together with a change of another field
ChangesMadeTogether == {c \in RawChanges : c.field_name = "status"}

\* the members of a list
Members(list) == {list[k] : k \in DOMAIN list}

\* the list without the value
RECURSIVE Without(_, _)
Without(list, v) ==
    IF list = <<>> THEN <<>>
    ELSE IF Head(list) = v THEN Without(Tail(list), v)
    ELSE <<Head(list)>> \o Without(Tail(list), v)

\* the change can be made to bug x as it is: the removed value is the present one
CanChange(x, live, c) ==
    CASE c.field_name = "keywords" ->
             IF c.added = <<>> THEN c.removed \in Members(live.keywords)
             ELSE c.added \notin Members(live.keywords)
      [] c.field_name = "depends_on" ->
             IF c.added = <<>> THEN DigitOf(c.removed) \in Members(live.depends_on)
             ELSE DigitOf(c.added) \notin Members(live.depends_on) \cup {x}
      [] OTHER -> live[c.field_name] = c.removed

\* the bug after the change
ApplyChange(live, c) ==
    CASE c.field_name = "keywords" ->
             [live EXCEPT !.keywords = IF c.added = <<>> THEN Without(@, c.removed)
                                       ELSE Append(@, c.added)]
      [] c.field_name = "depends_on" ->
             [live EXCEPT !.depends_on = IF c.added = <<>> THEN Without(@, DigitOf(c.removed))
                                         ELSE Append(@, DigitOf(c.added))]
      [] OTHER -> [live EXCEPT ![c.field_name] = c.added]

\* the number of changes in the histories of the bugs xs
RECURSIVE CountChanges(_)
CountChanges(xs) ==
    IF xs = {} THEN 0
    ELSE LET x == CHOOSE y \in xs : TRUE
             n(h) == Len(h.changes)
             RECURSIVE sum(_)
             sum(hs) == IF hs = <<>> THEN 0 ELSE n(Head(hs)) + sum(Tail(hs))
         IN  sum(tracker.hist[x]) + CountChanges(xs \ {x})

\* someone edits bug x: one change, or two changes of different fields together
TrackerChange(x, changes) ==
    /\ CountChanges(IssueNumbers) + Len(changes) <= MaxChanges
    /\ CanChange(x, tracker.live[x], changes[1])
    /\ Len(changes) = 2 =>
           /\ changes[2].field_name # changes[1].field_name
           /\ CanChange(x, tracker.live[x], changes[2])
    /\ tracker' = [tracker EXCEPT
           !.live[x] = IF Len(changes) = 2 THEN ApplyChange(ApplyChange(@, changes[1]), changes[2])
                       ELSE ApplyChange(@, changes[1]),
           !.hist[x] = Append(@, [when |-> Len(@) + 1, who |-> U_jane1, changes |-> changes])]
    /\ obs' = [obs EXCEPT !.walked = @ \ {x}]
    /\ UNCHANGED <<storeVars, peopleVars, nextId, runVars, refs, imported, session,
                   resolved, err>>

\* the external ids _process_issue computes for the items of histories: entry k
\* of the history is number Len(histories) - k of the reversed walk
Old_item_ids(x, histories) ==
    {[issue |-> x, when |-> histories[k].when, item |-> i, run |-> issue_system_id,
      external_id |-> Old_unique_event_id(x, i - 1, Len(histories) - k)] :
        <<k, i>> \in {<<k, i>> \in (DOMAIN histories) \X (1..2) :
                         i \in DOMAIN histories[k].changes}}

\* process(): the bugs are processed in the order the tracker lists them, each as
\* the tracker returns it when its turn comes; this is the call of _process_issue
\* for bug x
OldProcessIssue(x) ==
    /\ backend = "bugzillaOld"
    /\ err = "none"
    /\ session.next = x
    /\ session' = [session EXCEPT !.next = x + 1]
    /\ LET d == Old_process_issue(DB, issue_system_id, tracker.live[x], tracker.comments[x],
                                  tracker.hist[x])
       IN  /\ SetDB(d)
           /\ obs' = [obs EXCEPT
                  !.ids = IF d.err = "none" THEN @ \cup Old_item_ids(x, tracker.hist[x]) ELSE @,
                  !.walked = IF d.err = "none" THEN @ \cup {x} ELSE @ \ {x}]
    /\ UNCHANGED <<runVars, imported, resolved, tracker>>

\* the next run of IssueSHARK.start, once process() has gone through the bugs or
\* has raised
OldNextRun ==
    /\ session.next \notin IssueNumbers \/ err # "none"
    /\ StartRun

InitOld == StoreInit /\ RunInit /\ EnvInit /\ backend = "bugzillaOld" /\ resolved = {}

NextOld ==
    \/ \E x \in IssueNumbers, c1 \in RawChanges : TrackerChange(x, <<c1>>)
    \/ \E x \in IssueNumbers, c1 \in ChangesMadeTogether, c2 \in RawChanges :
           TrackerChange(x, <<c1, c2>>)
    \/ \E x \in IssueNumbers : OldProcessIssue(x)
    \/ OldNextRun

SpecOld == InitOld /\ [][NextOld]_vars

\* C5: an item of an issue's history (the entry it belongs to, its place in the
\* entry) is given the same event external id in every run that sees it, however
\* many entries the history has gained since.
C5_ExternalIdStable ==
    \A a, b \in obs.ids :
        (a.issue = b.issue /\ a.when = b.when /\ a.item = b.item /\ a.run # b.run)
            => a.external_id = b.external_id

\* the person an Issue names is the account's
NamesAccount(person_id, username) ==
    \E p \in people : p.id = person_id /\ p.name = UserDirectory(username).real_name

\* the external ids of the issues the links of an Issue point to
LinkTargets(doc) ==
    {i.external_id : i \in {i \in issues : \E k \in DOMAIN doc.issue_links :
                                               doc.issue_links[k].issue_id = i.id}}

\* C6: once _process_issue has walked the whole (consistent) history of a bug
\* back from the live bug, the stored Issue holds the values the bug was created
\* with in every field that is set back.
C6_CreationStateRestored ==
    \A x \in obs.walked : \A doc \in IssuesOf(issue_system_id, x) :
        LET created == tracker.created[x]
        IN  /\ doc.title = created.summary
            /\ doc.status = created.status
            /\ doc.priority = created.severity
            /\ doc.labels = SeqToBag(created.keywords)
            /\ doc.components = SetToBag({created.component})
            /\ NamesAccount(doc.assignee_id, created.assigned_to)
            /\ LinkTargets(doc) = {str(t) : t \in Members(created.depends_on)}

(***************************************************************************)
(* The Jira backend.  _process_issue fetches the issue with its changelog, *)
(* transforms it, walks the changelog from the newest entry to the oldest  *)
(* (the items of an entry from the last to the first), sets the in-memory  *)
(* Issue back item by item, sets the status to 'Open', saves the Issue,    *)
(* inserts the new events and stores the comments.                         *)
(***************************************************************************)
\* values of raw Jira fields
JSt_Open     == <<"O">>
JSt_Resolved == <<"R">>
JP_Major     == <<"M">>
JP_Minor     == <<"m">>
L_a          == <<"a">>
L_b          == <<"b">>
Space        == " "

\* the link type "Blocker" and an issue link of that type to the issue named key
LinkTypeBlocker == [name |-> "Blocker", outward |-> "blocks", inward |-> "is blocked by"]
JiraLink(key, direction) == [key |-> key, direction |-> direction, type |-> LinkTypeBlocker]

\* a raw Jira issue as it is created
RawJira(x) ==
    [id |-> x, summary |-> <<"t">>, status |-> JSt_Open, priority |-> JP_Major,
     labels |-> <<L_a>>, components |-> << <<"c", Space, "d">> >>,
     issuetype |-> "Bug", assignee |-> U_jane1, creator |-> U_jane1, reporter |-> U_jane2,
     issuelinks |-> <<>>]

\* str.split(" ")
RECURSIVE Split(_)
Split(text) ==
    IF \A k \in DOMAIN text : text[k] # Space THEN <<text>>
    ELSE LET k == CHOOSE n \in DOMAIN text : text[n] = Space /\ \A o \in 1..(n - 1) : text[o] # Space
         IN  <<SubSeq(text, 1, k - 1)>> \o Split(SubSeq(text, k + 1, Len(text)))

\* " ".join(list)
RECURSIVE Join(_)
Join(list) ==
    IF list = <<>> THEN <<>>
    ELSE IF Len(list) = 1 THEN Head(list)
    ELSE Head(list) \o <<Space>> \o Join(Tail(list))

\* JiraBackend._parse_array_field: the names of the values, each split at blanks
RECURSIVE Jira_parse_array_field(_)
Jira_parse_array_field(array_field) ==
    IF array_field = <<>> THEN <<>>
    ELSE Split(Head(array_field)) \o Jira_parse_array_field(Tail(array_field))

\* JiraBackend._parse_author_details: the person with the details of the raw issue
Jira_parse_author_details(db, username) ==
    IF username = NoneS THEN PeopleResult(db, NoneId)
    ELSE LET a == EmbeddedDetail(username, TRUE)
         IN  Jira_get_people(db, username, a.email, a.name)

\* JiraBackend._parse_issue_links: one link per raw link, the target resolved, the
\* effect taken from the side of the link type the issue is on
RECURSIVE Jira_parse_issue_links(_, _, _)
Jira_parse_issue_links(db, system_id, raw_links) ==
    IF raw_links = <<>> THEN [db |-> db, links |-> <<>>]
    ELSE LET l    == Head(raw_links)
             r    == Jira_get_issue_id_by_system_id(db, system_id, l.key)
             rest == Jira_parse_issue_links(r.db, system_id, Tail(raw_links))
         IN  [db |-> rest.db,
              links |-> <<[issue_id |-> r.id, type |-> l.type.name,
                           effect |-> IF l.direction = "outward" THEN l.type.outward
                                      ELSE l.type.inward]>> \o rest.links]

\* JiraBackend._transform_jira_issue: the stored Issue of this issue system or a
\* new one, every mapped attribute set from the raw issue in the order of
\* at_mapping (list attributes merged with what is stored), then saved
Jira_transform_jira_issue(db, system_id, raw) ==
    IF db.err # "none" THEN [db |-> db, doc |-> NewIssue(system_id, str(raw.id))]
    ELSE
    LET found == IssueQuery(db, system_id, str(raw.id))
        m0    == IF found = {} THEN NewIssue(system_id, str(raw.id)) ELSE FirstDoc(found)
        p1    == Jira_parse_author_details(db, raw.creator)
        p2    == Jira_parse_author_details(p1.db, raw.reporter)
        p3    == Jira_parse_author_details(p2.db, raw.assignee)
        l4    == Jira_parse_issue_links(p3.db, system_id, raw.issuelinks)
        m5    == [m0 EXCEPT !.title = raw.summary,
                            !.creator_id = p1.id,
                            !.reporter_id = p2.id,
                            !.issue_type = raw.issuetype,
                            !.priority = raw.priority,
                            !.status = raw.status,
                            !.components = MergeList(@, SeqToBag(Jira_parse_array_field(raw.components))),
                            !.labels = MergeList(@, SeqToBag(Jira_parse_array_field(raw.labels))),
                            !.assignee_id = p3.id,
                            !.issue_links = MergeLinks(@, l4.links)]
    IN  IF Cardinality(found) > 1
        THEN [db |-> [db EXCEPT !.err = "MultipleObjectsReturned"], doc |-> m0]
        ELSE SaveIssue(l4.db, m5)

\* an item of a changelog entry
JiraItem(field, from, fromString, to, toString) ==
    [field |-> field, from |-> from, fromString |-> fromString, to |-> to, toString |-> toString]

\* a value is falsy: None or the empty string
Falsy(v) == v = NoneS \/ v = <<>>

\* JiraBackend._set_back_string_field: the attribute takes fromString
Jira_set_back_string_field(mongo_issue, mongo_at_name, jira_event) ==
    [mongo_issue EXCEPT ![mongo_at_name] = jira_event.fromString]

\* item_list.append of every value in turn
RECURSIVE AppendAll(_, _)
AppendAll(item_list, values) ==
    IF values = <<>> THEN item_list
    ELSE AppendAll(item_list (+) SetToBag({Head(values)}), Tail(values))

\* item_list.remove of every value in turn; ok is FALSE when a value is not in the
\* list (ValueError)
RECURSIVE RemoveAll(_, _)
RemoveAll(item_list, values) ==
    IF values = <<>> THEN [ok |-> TRUE, list |-> item_list]
    ELSE IF ~BagIn(Head(values), item_list) THEN [ok |-> FALSE, list |-> item_list]
    ELSE RemoveAll(item_list (-) SetToBag({Head(values)}), Tail(values))

\* JiraBackend._set_back_array_field: every part of fromString is appended, every
\* part of toString is removed
Jira_set_back_array_field(db, mongo_issue, mongo_at_name, jira_event) ==
    LET l1 == IF Falsy(jira_event.fromString) THEN mongo_issue[mongo_at_name]
              ELSE AppendAll(mongo_issue[mongo_at_name], Split(jira_event.fromString))
        l2 == IF Falsy(jira_event.toString) THEN [ok |-> TRUE, list |-> l1]
              ELSE RemoveAll(l1, Split(jira_event.toString))
    IN  IF l2.ok THEN [db |-> db, issue |-> [mongo_issue EXCEPT ![mongo_at_name] = l2.list]]
        ELSE [db |-> [db EXCEPT !.err = "ValueError"],
              issue |-> [mongo_issue EXCEPT ![mongo_at_name] = l2.list]]

\* JiraBackend._set_back_assignee: the person of the user named in from, or None
Jira_set_back_assignee(db, mongo_issue, mongo_at_name, jira_event) ==
    IF jira_event.from # NoneS
    THEN LET Set(p) == [db |-> p.db, issue |-> [mongo_issue EXCEPT ![mongo_at_name] = p.id]]
         IN  CHOOSE out \in {Set(v) : v \in
                {Jira_get_people(db, jira_event.from, NoneS, NoneS)}} : TRUE
    ELSE [db |-> db, issue |-> [mongo_issue EXCEPT ![mongo_at_name] = NoneId]]

\* msg_string contains the phrase at its start only
ContainsPhraseAtStart(msg_string, phrase) ==
    Len(msg_string) >= Len(phrase) /\ SubSeq(msg_string, 1, Len(phrase)) = phrase

\* msg_string contains the phrase (both as their words)
ContainsPhrase(msg_string, phrase) ==
    \E k \in 1..(Len(msg_string) - Len(phrase) + 1) :
        SubSeq(msg_string, k, k + Len(phrase) - 1) = phrase

\* JiraBackend._get_issue_link_type_and_effect: the if/elif chain, in its order;
\* (None, None) when the message contains none of the phrases
Jira_get_issue_link_type_and_effect(msg_string) ==
    LET te(type, effect) == [type |-> type, effect |-> effect]
        has(phrase) == ContainsPhrase(msg_string, phrase)
    IN
        IF has(<<"Blocked">>) THEN te("Blocked", "Blocked")
        ELSE IF has(<<"is", "blocked", "by">>) THEN te("Blocker", "is blocked by")
        ELSE IF has(<<"issue", "blocks">>) THEN te("Blocker", "blocks")
        ELSE IF has(<<"is", "cloned", "by">>) THEN te("Cloners", "is cloned by")
        ELSE IF has(<<"is", "a", "clone", "of">>) THEN te("Cloners", "is cloned by")
        ELSE IF has(<<"Is", "contained", "by">>) THEN te("Container", "is contained by")
        ELSE IF has(<<"is", "contained", "by">>) THEN te("Container", "is contained by")
        ELSE IF has(<<"contains">>) THEN te("Container", "contains")
        ELSE IF has(<<"Dependent">>) THEN te("Dependent", "Dependent")
        ELSE IF has(<<"is", "duplicated", "by">>) THEN te("Duplicate", "is duplicated by")
        ELSE IF has(<<"duplicates">>) THEN te("Duplicate", "duplicates")
        ELSE IF has(<<"is", "part", "of">>) THEN te("Incorporates", "is part of")
        ELSE IF has(<<"incorporates">>) THEN te("Incorporates", "incorporates")
        ELSE IF has(<<"is", "related", "to">>) THEN te("Reference", "is related to")
        ELSE IF has(<<"relates", "to">>) THEN te("Reference", "relates to")
        ELSE IF has(<<"is", "broken", "by">>) THEN te("Regression", "is broken by")
        ELSE IF has(<<"breaks">>) THEN te("Regression", "breaks")
        ELSE IF has(<<"is", "required", "by">>) THEN te("Required", "is required by")
        ELSE IF has(<<"requires">>) THEN te("Required", "requires")
        ELSE IF has(<<"is", "superceded", "by">>) THEN te("Supercedes", "is superceded by")
        ELSE IF has(<<"supercedes">>) THEN te("Supercedes", "supercedes")
        ELSE IF has(<<"is", "depended", "upon", "by">>) THEN te("Dependent", "is depended upon by")
        ELSE IF has(<<"depends", "upon">>) THEN te("Dependent", "depends upon")
        ELSE IF has(<<"depends", "on">>) THEN te("Dependent", "depends on")
        ELSE te(None, None)

\* str.lower() of a link type or effect
Lower(text) ==
    CASE text = "Blocked"      -> "blocked"
      [] text = "Blocker"      -> "blocker"
      [] text = "Cloners"      -> "cloners"
      [] text = "Container"    -> "container"
      [] text = "Dependent"    -> "dependent"
      [] text = "Duplicate"    -> "duplicate"
      [] text = "Incorporates" -> "incorporates"
      [] text = "Reference"    -> "reference"
      [] text = "Regression"   -> "regression"
      [] text = "Required"     -> "required"
      [] text = "Supercedes"   -> "supercedes"
      [] OTHER                 -> text

\* the places of item_list whose link is the one to issue_id with the type and
\* effect te, compared in lower case
LinkPlaces(item_list, issue_id, te) ==
    {k \in DOMAIN item_list :
        /\ item_list[k].issue_id = issue_id
        /\ Lower(item_list[k].effect) = Lower(te.effect)
        /\ Lower(item_list[k].type) = Lower(te.type)}

\* a link to issue_id is compared with (None, None): None has no lower()
LowerOfNone(item_list, issue_id, te) ==
    te.effect = None /\ \E k \in DOMAIN item_list : item_list[k].issue_id = issue_id

\* JiraBackend._set_back_issue_links: the link named in to/toString is deleted
\* (IndexError when it is not in the list), the link named in from/fromString is
\* appended unless it is there
Jira_set_back_issue_links(db, system_id, mongo_issue, mongo_at_name, jira_event) ==
    LET From(st) ==
            IF Falsy(jira_event.from) \/ st.db.err # "none" THEN st
            ELSE LET te == Jira_get_issue_link_type_and_effect(jira_event.fromString)
                     Add(r) ==
                         IF r.db.err # "none" THEN [db |-> r.db, issue |-> st.issue]
                         ELSE IF LowerOfNone(st.issue.issue_links, r.id, te)
                         THEN [db |-> [r.db EXCEPT !.err = "AttributeError"], issue |-> st.issue]
                         ELSE IF LinkPlaces(st.issue.issue_links, r.id, te) # {}
                         THEN [db |-> r.db, issue |-> st.issue]
                         ELSE [db |-> r.db,
                               issue |-> [st.issue EXCEPT ![mongo_at_name] =
                                            Append(@, [issue_id |-> r.id, type |-> te.type,
                                                       effect |-> te.effect])]]
                 IN  CHOOSE out \in {Add(v) : v \in
                        {Jira_get_issue_id_by_system_id(st.db, system_id,
                                                        DigitOf(jira_event.from))}} : TRUE
        To(r) ==
            LET te   == Jira_get_issue_link_type_and_effect(jira_event.toString)
                hits == LinkPlaces(mongo_issue.issue_links, r.id, te)
            IN  IF r.db.err # "none" THEN [db |-> r.db, issue |-> mongo_issue]
                ELSE IF LowerOfNone(mongo_issue.issue_links, r.id, te)
                THEN [db |-> [r.db EXCEPT !.err = "AttributeError"], issue |-> mongo_issue]
                ELSE IF hits = {}
                THEN [db |-> [r.db EXCEPT !.err = "IndexError"], issue |-> mongo_issue]
                ELSE [db |-> r.db,
                      issue |-> [mongo_issue EXCEPT ![mongo_at_name] =
                                   DelAt(@, CHOOSE k \in hits : \A o \in hits : k <= o)]]
    IN  IF Falsy(jira_event.to) THEN From([db |-> db, issue |-> mongo_issue])
        ELSE CHOOSE out \in {From(To(v)) : v \in
                {Jira_get_issue_id_by_system_id(db, system_id, DigitOf(jira_event.to))}} : TRUE

\* at_mapping of the Jira backend: raw attribute -> attribute of the Issue document
Jira_at_mapping(name) ==
    CASE name = "summary"     -> "title"
      [] name = "description" -> "desc"
      [] name = "created"     -> "created_at"
      [] name = "updated"     -> "updated_at"
      [] name = "creator"     -> "creator_id"
      [] name = "reporter"    -> "reporter_id"
      [] name = "issuetype"   -> "issue_type"
      [] name = "priority"    -> "priority"
      [] name = "status"      -> "status"
      [] name = "versions"    -> "affects_versions"
      [] name = "components"  -> "components"
      [] name = "labels"      -> "labels"
      [] name = "resolution"  -> "resolution"
      [] name = "fixVersions" -> "fix_versions"
      [] name = "assignee"    -> "assignee_id"
      [] name = "issuelinks"  -> "issue_links"
      [] name = "parent"      -> "parent_issue_id"
      [] name = "timeoriginalestimate" -> "original_time_estimate"
      [] name = "environment" -> "environment"
      [] OTHER                -> name

\* terminology_mapping of _process_event: changelog name -> raw attribute
Jira_terminology_mapping(field) ==
    CASE field = "Component"   -> "components"
      [] field = "Link"        -> "issuelinks"
      [] field = "Fix Version" -> "fixVersions"
      [] OTHER                 -> field

\* the keys of function_mapping in _set_back_mongo_issue, among the attributes
\* carried here
Jira_function_mapping ==
    {"title", "issue_type", "priority", "status", "components", "labels", "assignee_id",
     "issue_links"}

\* JiraBackend._set_back_mongo_issue
Jira_set_back_mongo_issue(db, system_id, mongo_issue, mongo_at_name, jira_event) ==
    IF mongo_at_name \notin Jira_function_mapping
    THEN [db |-> [db EXCEPT !.err = "KeyError"], issue |-> mongo_issue]
    ELSE IF mongo_at_name \in {"title", "issue_type", "priority", "status"}
    THEN [db |-> db, issue |-> Jira_set_back_string_field(mongo_issue, mongo_at_name, jira_event)]
    ELSE IF mongo_at_name \in {"components", "labels"}
    THEN Jira_set_back_array_field(db, mongo_issue, mongo_at_name, jira_event)
    ELSE IF mongo_at_name = "assignee_id"
    THEN Jira_set_back_assignee(db, mongo_issue, mongo_at_name, jira_event)
    ELSE Jira_set_back_issue_links(db, system_id, mongo_issue, mongo_at_name, jira_event)

\* JiraBackend._process_event: the stored event with the key, or a new one
\* (is_new); its status is the mapped attribute, or the changelog name when there
\* is no mapping; when the Issue has an attribute of that name the issue is set
\* back and the event takes the attribute's value before and after, else the
\* strings of the item
Jira_process_event(db, system_id, created_at, author_id, jira_event, unique_event_id, mongo_issue) ==
    LET found == EventQuery(db, unique_event_id, mongo_issue.id)
        e0    == IF found # {} THEN FirstDoc(found)
                 ELSE NewEvent(unique_event_id, mongo_issue.id, created_at, author_id)
        status == Jira_at_mapping(Jira_terminology_mapping(jira_event.field))
        Back(r) == [db |-> r.db, issue |-> r.issue, is_new |-> found = {},
                    event |-> [e0 EXCEPT !.status = status,
                                         !.new_value = AttributeVal(mongo_issue, status),
                                         !.old_value = AttributeVal(r.issue, status)]]
    IN  IF db.err # "none"
        THEN [db |-> db, issue |-> mongo_issue, is_new |-> FALSE, event |-> e0]
        ELSE IF Cardinality(found) > 1
        THEN [db |-> [db EXCEPT !.err = "MultipleObjectsReturned"], issue |-> mongo_issue,
              is_new |-> FALSE, event |-> e0]
        ELSE IF status \in IssueAttributes
        THEN CHOOSE out \in {Back(v) : v \in
                {Jira_set_back_mongo_issue(db, system_id, mongo_issue, status, jira_event)}} : TRUE
        ELSE [db |-> db, issue |-> mongo_issue, is_new |-> found = {},
              event |-> [e0 EXCEPT !.status = status,
                                   !.new_value = StrVal(jira_event.toString),
                                   !.old_value = StrVal(jira_event.fromString)]]

\* str(history.id) + "%%" + str(i)
Jira_unique_event_id(history_id, i) == Chars(history_id) \o <<"%", "%">> \o Chars(i)

\* the inner loop of _process_issue over reversed(history.items), from number i on
RECURSIVE Jira_walk_items(_, _, _, _, _, _)
Jira_walk_items(db, system_id, items, i, mongo_issue, history) ==
    IF items = <<>> \/ db.err # "none" THEN [db |-> db, issue |-> mongo_issue, new |-> <<>>]
    ELSE LET Rest(r) ==
                 LET Join2(rest) == [db |-> rest.db, issue |-> rest.issue,
                                     new |-> (IF r.is_new THEN <<r.event>> ELSE <<>>) \o rest.new]
                 IN  CHOOSE out \in {Join2(v) : v \in
                        {Jira_walk_items(r.db, system_id, Tail(items), i + 1, r.issue,
                                         history)}} : TRUE
         IN  CHOOSE out \in {Rest(v) : v \in
                {Jira_process_event(db, system_id, history.created, history.author_id,
                                    Head(items), Jira_unique_event_id(history.id, i),
                                    mongo_issue)}} : TRUE

\* the outer loop of _process_issue over reversed(issue.changelog.histories)
RECURSIVE Jira_walk_histories(_, _, _, _)
Jira_walk_histories(db, system_id, histories, mongo_issue) ==
    IF histories = <<>> \/ db.err # "none" THEN [db |-> db, issue |-> mongo_issue, new |-> <<>>]
    ELSE LET Items(p) ==
                 LET Rest(r) ==
                         LET Join2(rest) == [db |-> rest.db, issue |-> rest.issue,
                                             new |-> r.new \o rest.new]
                         IN  CHOOSE out \in {Join2(v) : v \in
                                {Jira_walk_histories(r.db, system_id, Tail(histories),
                                                     r.issue)}} : TRUE
                 IN  CHOOSE out \in {Rest(v) : v \in
                        {Jira_walk_items(p.db, system_id, Reversed(Head(histories).items), 0,
                                         mongo_issue,
                                         [id |-> Head(histories).id,
                                          created |-> Head(histories).created,
                                          author_id |-> p.id])}} : TRUE
         IN  CHOOSE out \in {Items(v) : v \in
                {Jira_parse_author_details(db, Head(histories).author)}} : TRUE

\* JiraBackend._process_issue for the issue as the client returns it
Jira_process_issue(db, system_id, issue) ==
    LET Walked(w) ==
            IF w.db.err # "none" THEN w.db
            ELSE LET Stored(d) ==
                         Jira_process_comments(InsertEvents(d, w.new), w.issue.id,
                                               issue.comments)
                 IN  CHOOSE out \in {Stored(v) : v \in
                        {SaveIssue(w.db, [w.issue EXCEPT !.status = JSt_Open]).db}} : TRUE
        Transformed(t) ==
            IF t.db.err # "none" THEN t.db
            ELSE CHOOSE out \in {Walked(v) : v \in
                    {Jira_walk_histories(t.db, system_id, Reversed(issue.histories),
                                         t.doc)}} : TRUE
    IN  CHOOSE out \in {Transformed(v) : v \in
            {Jira_transform_jira_issue(db, system_id, issue.fields)}} : TRUE

(***************************************************************************)
(* _process_issue against a Jira whose issues are edited: every edit       *)
(* changes the live fields of an issue and appends one entry to its        *)
(* changelog.  A call is repeated when it is made again for an issue that  *)
(* has not been edited since a call for it completed.                      *)
(***************************************************************************)
\* the edits of a Jira issue
JiraEdits ==
    {[field |-> "status", value |-> JSt_Resolved], [field |-> "priority", value |-> JP_Minor],
     [field |-> "assignee", value |-> U_jane2], [field |-> "assignee", value |-> NoneS],
     [field |-> "labels", value |-> <<>>], [field |-> "labels", value |-> <<L_a, L_b>>],
     [field |-> "labels", value |-> <<L_b>>],
     [field |-> "Link", value |-> <<1>>], [field |-> "Link", value |-> <<2>>]}

\* the words of the message of a link change to the issue named key
LinkMessage(key) == <<"This", "issue", "blocks", str(key)>>

\* the edit changes issue x as it is: another value, a new link to another issue
CanEdit(x, live, e) ==
    IF e.field = "Link"
    THEN e.value[1] # x /\ \A k \in DOMAIN live.issuelinks : live.issuelinks[k].key # e.value[1]
    ELSE live[e.field] # e.value

\* the changelog item of the edit
EditItem(live, e) ==
    CASE e.field = "Link" ->
             JiraItem("Link", NoneS, NoneS, Chars(e.value[1]), LinkMessage(e.value[1]))
      [] e.field = "labels" ->
             JiraItem("labels", NoneS, Join(live.labels), NoneS, Join(e.value))
      [] e.field = "assignee" ->
             JiraItem("assignee", live.assignee, live.assignee, e.value, e.value)
      [] OTHER -> JiraItem(e.field, NoneS, live[e.field], NoneS, e.value)

\* the issue after the edit
ApplyEdit(live, e) ==
    IF e.field = "Link"
    THEN [live EXCEPT !.issuelinks = Append(@, JiraLink(e.value[1], "outward"))]
    ELSE [live EXCEPT ![e.field] = e.value]

\* the number of entries in the changelogs of the issues xs
RECURSIVE CountEntries(_)
CountEntries(xs) ==
    IF xs = {} THEN 0
    ELSE LET x == CHOOSE y \in xs : TRUE
         IN  Len(tracker.hist[x]) + CountEntries(xs \ {x})

\* someone edits issue x
JiraEdit(x, e) ==
    /\ CountEntries(IssueNumbers) < MaxChanges
    /\ CanEdit(x, tracker.live[x], e)
    /\ tracker' = [tracker EXCEPT
           !.live[x] = ApplyEdit(@, e),
           !.hist[x] = Append(@, [id |-> 10 * x + Len(@) + 1, created |-> Len(@) + 1,
                                  author |-> U_jane1, items |-> <<EditItem(tracker.live[x], e)>>])]
    /\ obs' = [obs EXCEPT !.stored = {c \in @ : c.issue_id # x}]
    /\ UNCHANGED <<storeVars, peopleVars, nextId, runVars, refs, imported, session,
                   resolved, err>>

\* one call of _process_issue(issue_key) for issue x
JiraProcessIssue(x) ==
    /\ backend = "jira"
    /\ err = "none"
    /\ LET issue == [fields |-> tracker.live[x], histories |-> tracker.hist[x],
                     comments |-> tracker.comments[x]]
           d == Jira_process_issue(DB, issue_system_id, issue)
           c == [issue_id |-> x, mongo_issue_id |-> NoneId, n |-> Len(tracker.hist[x])]
       IN  /\ SetDB(d)
           /\ obs' = NoteCall(obs, c, d.err = "none", {})
    /\ UNCHANGED <<runVars, imported, resolved, tracker, session>>

\* the Jira before anything has happened to its issues, and no call made yet
JiraEnvInit ==
    /\ tracker = [created |-> [x \in IssueNumbers |-> RawJira(x)],
                  live |-> [x \in IssueNumbers |-> RawJira(x)],
                  hist |-> [x \in IssueNumbers |-> <<>>],
                  comments |-> [x \in IssueNumbers |-> <<>>]]
    /\ obs = [stored |-> {}, repeated |-> FALSE, last |-> NoCall, ids |-> {}, edited |-> FALSE,
              walked |-> {}]

InitJira == StoreInit /\ RunInit /\ JiraEnvInit /\ backend = "jira" /\ resolved = {}

NextJira ==
    \/ \E x \in IssueNumbers, e \in JiraEdits : JiraEdit(x, e)
    \/ \E x \in IssueNumbers : JiraProcessIssue(x)

SpecJira == InitJira /\ [][NextJira]_vars

\* the stored Issue documents with external id x, whatever their issue system
StoredIssue(x) == {doc \in issues : doc.external_id = str(x)}

\* C2: a call of JiraBackend._process_issue for an issue that has not been edited
\* since a call for it completed changes no field of the stored Issue: no scalar
\* field, and no element of a list field added, removed or duplicated.
C2_SecondPassChangesNothing ==
    [][\A x \in IssueNumbers :
           (obs'.last \in obs.stored /\ obs'.last.issue_id = x) => StoredIssue(x)' = StoredIssue(x)]_vars

(***************************************************************************)
(* The GitHub backend and BaseBackend.save_issues.  An Issue carries the   *)
(* list of the issue systems (generations) it was seen in.  process()      *)
(* builds, for every issue of the tracker, new documents for the issue,    *)
(* its comments and its events, compares each with the document stored     *)
(* under the last issue system, and save_issues then writes the new        *)
(* documents of the issues that differ and tags the others with the        *)
(* current issue system.                                                   *)
(***************************************************************************)
GSt_open   == <<"o">>
GSt_closed == <<"c">>
T_1        == <<"t", "1">>
T_2        == <<"t", "2">>
E_null     == <<"n", "u", "l", "l">>

\* Issue(issue_system_ids=[..], external_id=..) before it is saved
GhNewIssue(system_id, external_id) ==
    [id |-> NoneId, issue_system_ids |-> <<system_id>>, external_id |-> external_id,
     title |-> NoneS, desc |-> NoneS, status |-> NoneS, labels |-> <<>>, updated_at |-> 0,
     reporter_id |-> NoneId, creator_id |-> NoneId, assignee_id |-> NoneId,
     issue_links |-> <<>>, parent_issue_id |-> NoneId]

\* GithubBackend._get_people(user_url): the person of the account, by name (the
\* login when there is none) and e-mail ('null' when there is none)
Gh_get_people(db, user_url) ==
    IF db.err # "none" THEN PeopleResult(db, NoneId)
    ELSE IF user_url \in DOMAIN db.cache THEN PeopleResult(db, db.cache[user_url])
    ELSE LET raw_user == UserDirectory(user_url)
             name     == IF raw_user.real_name = NoneS THEN user_url ELSE raw_user.real_name
             email    == IF raw_user.email = NoneS THEN E_null ELSE raw_user.email
             up       == upsert_one(db, name, email, user_url)
         IN  PeopleResult([up.db EXCEPT !.cache = MapPut(@, user_url, up.id)], up.id)

\* the fields of the documents that are lists
ListFields == {"labels", "issue_links"}

\* DeepDiff finding no difference, whatever the documents
DeepDiffNothing(old, new, exclude_paths) == FALSE

\* DeepDiff(t1=old.to_mongo().to_dict(), t2=new.to_mongo().to_dict(),
\* exclude_paths=.., ignore_order=True): some field outside the excluded paths
\* differs; with ignore_order a list is compared by its members
DeepDiff(old, new, exclude_paths) ==
    \E f \in (DOMAIN new) \ exclude_paths :
        IF f \in ListFields THEN Members(old[f]) # Members(new[f]) ELSE old[f] # new[f]

\* check_diff with every document reported as changed
check_diff_always(sess, old, new, ex_path) ==
    [sess EXCEPT !.issues_diff = MapPut(@, sess.issue_id, TRUE)]

\* BaseBackend.check_diff for the issue in hand: old is the set of stored
\* documents found (none or one); '_id' is the field id of a document
check_diff(sess, old, new, ex_path) ==
    LET diff0 == IF sess.issue_id \in DOMAIN sess.issues_diff
                 THEN sess.issues_diff[sess.issue_id] ELSE FALSE
        diff1 == IF old = {} THEN TRUE
                 ELSE IF DeepDiff(FirstDoc(old), new, ex_path \cup {"id"}) THEN TRUE
                 ELSE diff0
    IN  [sess EXCEPT !.issues_diff = MapPut(@, sess.issue_id, diff1)]

\* BaseBackend.check_diff_issue(old, new)
check_diff_issue(sess, old, new) ==
    check_diff(sess, old, new, {"issue_system_ids", "issue_links", "parent_issue_id"})

\* BaseBackend.check_diff_comment_event(old, new)
check_diff_comment_event(sess, old, new) ==
    check_diff(sess, old, new, {"issue_id", "old_value", "new_value"})

\* Issue.objects(issue_system_ids=.., external_id=..)
GhIssueQuery(db, system_id, external_id) ==
    {i \in db.issues : system_id \in Members(i.issue_system_ids) /\ i.external_id = external_id}

\* GithubBackend.store_issue(raw_issue): the Issue stored under the last issue
\* system is looked up, a new Issue is built from the raw issue and compared
\* with it; the stored Issue (or None) is returned
Gh_store_issue(db, sess, system_id, last_id, raw_issue) ==
    LET issue_id == str(raw_issue.number)
        found    == GhIssueQuery(db, last_id, issue_id)
        s1       == [sess EXCEPT !.issue_id = issue_id,
                                 !.old_issues = IF found = {} THEN @
                                                ELSE MapPut(@, issue_id, FirstDoc(found))]
        p1       == Gh_get_people(db, raw_issue.user)
        p2       == IF raw_issue.assignee = NoneS THEN PeopleResult(p1.db, NoneId)
                    ELSE Gh_get_people(p1.db, raw_issue.assignee)
        new_issue == [GhNewIssue(system_id, issue_id) EXCEPT
                         !.reporter_id = p1.id, !.creator_id = p1.id,
                         !.title = raw_issue.title, !.desc = raw_issue.body,
                         !.updated_at = raw_issue.updated_at,
                         !.status = raw_issue.state, !.labels = raw_issue.labels,
                         !.assignee_id = p2.id]
        s2       == [s1 EXCEPT !.parsed_issues.issues = MapPut(@, issue_id, new_issue)]
    IN  IF db.err # "none" THEN [db |-> db, sess |-> sess, mongo_issue |-> {}]
        ELSE IF Cardinality(found) > 1
        THEN [db |-> [db EXCEPT !.err = "MultipleObjectsReturned"],
              sess |-> [sess EXCEPT !.issue_id = issue_id], mongo_issue |-> {}]
        ELSE [db |-> p2.db,
              sess |-> check_diff_issue(s2, found, new_issue),
              mongo_issue |-> found]

\* d[key] = doc for a dict kept in insertion order: the entry with the external
\* id is replaced, or the document is added at the end
DictPut(docs, doc) ==
    IF \E k \in DOMAIN docs : docs[k].external_id = doc.external_id
    THEN [k \in DOMAIN docs |-> IF docs[k].external_id = doc.external_id THEN doc ELSE docs[k]]
    ELSE Append(docs, doc)

\* self.parsed_issues[field][self.issue_id][external id] = doc
ParsedPut(sess, field, doc) ==
    LET mine == IF sess.issue_id \in DOMAIN sess.parsed_issues[field]
                THEN sess.parsed_issues[field][sess.issue_id] ELSE <<>>
    IN  [sess EXCEPT !.parsed_issues[field] = MapPut(@, sess.issue_id, DictPut(mine, doc))]

\* .get() of a query that is to find one stored comment or event of the stored
\* issue, or nothing when there is no stored issue
GhItemQuery(docs, mongo_issue, external_id) ==
    IF mongo_issue = {} THEN {}
    ELSE {d \in docs : d.external_id = external_id /\ d.issue_id = FirstDoc(mongo_issue).id}

\* the body of the loop of GithubBackend._process_comments for one raw comment
Gh_process_comment(st, mongo_issue, raw_comment) ==
    LET found == GhItemQuery(st.db.comments, mongo_issue, Chars(raw_comment.id))
        p     == Gh_get_people(st.db, raw_comment.user)
        new_comment == [id |-> NoneId, external_id |-> Chars(raw_comment.id),
                        issue_id |-> NoneId, created_at |-> raw_comment.created_at,
                        author_id |-> p.id, comment |-> raw_comment.body]
    IN  IF Cardinality(found) > 1
        THEN [db |-> [st.db EXCEPT !.err = "MultipleObjectsReturned"], sess |-> st.sess]
        ELSE [db |-> p.db,
              sess |-> check_diff_comment_event(ParsedPut(st.sess, "comments", new_comment),
                                               found, new_comment)]

\* GithubBackend._process_comments(mongo_issue), from the k-th raw comment on
RECURSIVE Gh_process_comments(_, _, _, _)
Gh_process_comments(st, mongo_issue, raw_comments, k) ==
    IF k > Len(raw_comments) \/ st.db.err # "none" THEN st
    ELSE Gh_process_comments(
             CHOOSE out \in {Gh_process_comment(st, mongo_issue, raw_comments[k])} : TRUE,
             mongo_issue, raw_comments, k + 1)

\* IssueEvent(external_id=.., created_at=.., status=..) before it is saved
GhNewEvent(external_id, created_at, status) ==
    [id |-> NoneId, external_id |-> external_id, issue_id |-> NoneId,
     created_at |-> created_at, status |-> status, commit_sha |-> NoneS,
     author_id |-> NoneId, old_value |-> NoVal, new_value |-> NoVal]

\* GithubBackend._set_old_and_new_value_for_event(event, raw_event)
Gh_set_old_and_new_value_for_event(db, event, raw_event) ==
    LET kind == raw_event.event
    IN  IF kind \in {"assigned", "unassigned"} /\ raw_event.assignee # NoneS
        THEN LET p == Gh_get_people(db, raw_event.assignee)
             IN  [db |-> p.db,
                  event |-> IF kind = "assigned"
                            THEN [event EXCEPT !.new_value = PersonVal(p.id)]
                            ELSE [event EXCEPT !.old_value = PersonVal(p.id)]]
        ELSE IF kind = "labeled" /\ raw_event.label # NoneS
        THEN [db |-> db, event |-> [event EXCEPT !.new_value = StrVal(raw_event.label)]]
        ELSE IF kind = "unlabeled" /\ raw_event.label # NoneS
        THEN [db |-> db, event |-> [event EXCEPT !.old_value = StrVal(raw_event.label)]]
        ELSE IF kind = "renamed" /\ raw_event.from # NoneS
        THEN [db |-> db, event |-> [event EXCEPT !.old_value = StrVal(raw_event.from),
                                                 !.new_value = StrVal(raw_event.to)]]
        ELSE [db |-> db, event |-> event]

\* the body of the loop of GithubBackend._process_events for one raw event
Gh_process_event(st, mongo_issue, raw_event) ==
    LET found == GhItemQuery(st.db.events, mongo_issue, Chars(raw_event.id))
        e0    == [GhNewEvent(Chars(raw_event.id), raw_event.created_at, raw_event.event)
                     EXCEPT !.commit_sha = raw_event.commit_id]
        p     == IF raw_event.actor = NoneS THEN PeopleResult(st.db, NoneId)
                 ELSE Gh_get_people(st.db, raw_event.actor)
        v     == Gh_set_old_and_new_value_for_event(p.db, [e0 EXCEPT !.author_id = p.id],
                                                    raw_event)
    IN  IF Cardinality(found) > 1
        THEN [db |-> [st.db EXCEPT !.err = "MultipleObjectsReturned"], sess |-> st.sess]
        ELSE [db |-> v.db,
              sess |-> check_diff_comment_event(ParsedPut(st.sess, "events", v.event), found,
                                               v.event)]

\* GithubBackend._process_events(mongo_issue), from the k-th raw event on
RECURSIVE Gh_process_events(_, _, _, _)
Gh_process_events(st, mongo_issue, raw_events, k) ==
    IF k > Len(raw_events) \/ st.db.err # "none" THEN st
    ELSE Gh_process_events(
             CHOOSE out \in {Gh_process_event(st, mongo_issue, raw_events[k])} : TRUE,
             mongo_issue, raw_events, k + 1)

\* item.issue_id = issue.id; item.save() for the items of one parsed issue, from
\* the k-th on
RECURSIVE SaveItems(_, _, _, _, _)
SaveItems(db, field, items, issue_id, k) ==
    IF k > Len(items) THEN db
    ELSE LET item == [items[k] EXCEPT !.issue_id = issue_id, !.id = db.nextId]
         IN  SaveItems([db EXCEPT ![field] = @ \cup {item}, !.nextId = @ + 1],
                       field, items, issue_id, k + 1)

\* the items parsed for an issue: parsed_issues[field][issue_id], or none when
\* the issue has no entry (the loop's continue)
ParsedItems(sess, field, issue_id) ==
    IF issue_id \in DOMAIN sess.parsed_issues[field]
    THEN sess.parsed_issues[field][issue_id] ELSE <<>>

\* the body of the loop of BaseBackend.save_issues for one parsed issue
save_issue(db, sess, system_id, issue_id) ==
    IF issue_id \in DOMAIN sess.issues_diff /\ sess.issues_diff[issue_id]
    THEN LET issue == [sess.parsed_issues.issues[issue_id] EXCEPT !.id = db.nextId]
             d1 == [db EXCEPT !.issues = @ \cup {issue}, !.nextId = @ + 1]
             d2 == SaveItems(d1, "comments", ParsedItems(sess, "comments", issue_id),
                             issue.id, 1)
         IN  SaveItems(d2, "events", ParsedItems(sess, "events", issue_id), issue.id, 1)
    ELSE IF issue_id \notin DOMAIN sess.old_issues THEN [db EXCEPT !.err = "KeyError"]
    ELSE LET old == sess.old_issues[issue_id]
         IN  [db EXCEPT !.issues =
                  {IF i.id = old.id
                   THEN [i EXCEPT !.issue_system_ids = Append(old.issue_system_ids, system_id)]
                   ELSE i : i \in @}]

\* BaseBackend.save_issues: the parsed issues in the order they were parsed,
\* from the issue numbered x on
RECURSIVE save_issues(_, _, _, _)
save_issues(db, sess, system_id, x) ==
    IF x \notin IssueNumbers \/ db.err # "none" THEN db
    ELSE save_issues(
             IF str(x) \in DOMAIN sess.parsed_issues.issues
             THEN CHOOSE out \in {save_issue(db, sess, system_id, str(x))} : TRUE
             ELSE db,
             sess, system_id, x + 1)

(***************************************************************************)
(* The GitHub tracker and the runs against it.  The tracker's clock counts  *)
(* what has happened to its issues; an issue's updated_at and the          *)
(* created_at of a comment or event are readings of it.  process() visits  *)
(* the issues in the order of the tracker's list and then saves.           *)
(***************************************************************************)
RawGithub(x) ==
    [number |-> x, title |-> T_1, body |-> <<"d">>, state |-> GSt_open, labels |-> <<L_a>>,
     user |-> U_jane1, assignee |-> NoneS, updated_at |-> 0]

RawGhEvent(id, kind, at) ==
    [id |-> id, event |-> kind, actor |-> U_jane1, commit_id |-> NoneS, created_at |-> at,
     assignee |-> NoneS, label |-> NoneS, from |-> NoneS, to |-> NoneS]

GhEnvInit ==
    /\ tracker = [live |-> [x \in IssueNumbers |-> RawGithub(x)],
                  hist |-> [x \in IssueNumbers |-> <<>>],
                  comments |-> [x \in IssueNumbers |-> <<>>],
                  clock |-> 0]
    /\ obs = [stored |-> {}, repeated |-> FALSE, last |-> NoCall, ids |-> {}, edited |-> FALSE,
              walked |-> {}]

\* what a user can do to an issue on the tracker
GhEdits == {"renamed", "labeled", "closed", "assigned"}

GhCanEdit(raw, kind) ==
    CASE kind = "renamed"  -> raw.title = T_1
      [] kind = "labeled"  -> L_b \notin Members(raw.labels)
      [] kind = "closed"   -> raw.state = GSt_open
      [] kind = "assigned" -> raw.assignee = NoneS

GhApplyEdit(raw, kind) ==
    CASE kind = "renamed"  -> [raw EXCEPT !.title = T_2]
      [] kind = "labeled"  -> [raw EXCEPT !.labels = Append(@, L_b)]
      [] kind = "closed"   -> [raw EXCEPT !.state = GSt_closed]
      [] kind = "assigned" -> [raw EXCEPT !.assignee = U_bob]

GhEditEvent(raw, kind, id, at) ==
    CASE kind = "renamed"  -> [RawGhEvent(id, kind, at) EXCEPT !.from = raw.title, !.to = T_2]
      [] kind = "labeled"  -> [RawGhEvent(id, kind, at) EXCEPT !.label = L_b]
      [] kind = "closed"   -> [RawGhEvent(id, kind, at) EXCEPT !.commit_id = <<"s">>]
      [] kind = "assigned" -> [RawGhEvent(id, kind, at) EXCEPT !.assignee = U_bob]

\* a user edits an issue: the issue changes and the tracker records the event
GhEdit(x, kind) ==
    /\ backend = "github"
    /\ tracker.clock < MaxChanges
    /\ GhCanEdit(tracker.live[x], kind)
    /\ LET at == tracker.clock + 1
           id == 10 * x + Len(tracker.hist[x]) + 1
       IN  tracker' = [tracker EXCEPT
               !.clock = at,
               !.live[x] = [GhApplyEdit(@, kind) EXCEPT !.updated_at = at],
               !.hist[x] = Append(@, GhEditEvent(tracker.live[x], kind, id, at))]
    /\ UNCHANGED <<storeVars, peopleVars, nextId, runVars, refs, imported, session, obs,
                   resolved, err>>

\* a user rewrites the description of an issue; the tracker records no event
GhEditBody(x) ==
    /\ backend = "github"
    /\ tracker.clock < MaxChanges
    /\ tracker.live[x].body = <<"d">>
    /\ tracker' = [tracker EXCEPT !.clock = @ + 1,
                                  !.live[x].body = <<"e">>,
                                  !.live[x].updated_at = tracker.clock + 1]
    /\ UNCHANGED <<storeVars, peopleVars, nextId, runVars, refs, imported, session, obs,
                   resolved, err>>

\* a user comments on an issue
GhComment(x, user) ==
    /\ backend = "github"
    /\ tracker.clock < MaxChanges
    /\ LET at == tracker.clock + 1
           id == 10 * x + Len(tracker.comments[x]) + 1
       IN  tracker' = [tracker EXCEPT
               !.clock = at,
               !.live[x].updated_at = at,
               !.comments[x] = Append(@, [id |-> id, user |-> user, body |-> <<"x">>,
                                          created_at |-> at])]
    /\ UNCHANGED <<storeVars, peopleVars, nextId, runVars, refs, imported, session, obs,
                   resolved, err>>

\* a user rewrites a comment; the issue itself is not touched
GhEditComment(x, k) ==
    /\ backend = "github"
    /\ tracker.clock < MaxChanges
    /\ k \in DOMAIN tracker.comments[x]
    /\ tracker.comments[x][k].body = <<"x">>
    /\ tracker' = [tracker EXCEPT !.clock = @ + 1, !.comments[x][k].body = <<"y">>]
    /\ UNCHANGED <<storeVars, peopleVars, nextId, runVars, refs, imported, session, obs,
                   resolved, err>>

\* the body of the loop of GithubBackend.process for the issue numbered x:
\* store_issue, _process_comments, _process_events
GhProcessIssue(x) ==
    /\ backend = "github"
    /\ err = "none"
    /\ ~session.done
    /\ session.next = x
    /\ LET s  == Gh_store_issue(DB, session, issue_system_id, last_system_id, tracker.live[x])
           c  == Gh_process_comments([db |-> s.db, sess |-> s.sess], s.mongo_issue,
                                     tracker.comments[x], 1)
           e  == Gh_process_events(c, s.mongo_issue, tracker.hist[x], 1)
       IN  /\ SetDB(e.db)
           /\ session' = [e.sess EXCEPT !.next = x + 1]
    /\ UNCHANGED <<runVars, imported, resolved, tracker, obs>>

\* the end of GithubBackend.process: save_issues, once every issue was visited
GhSaveIssues ==
    /\ backend = "github"
    /\ err = "none"
    /\ ~session.done
    /\ session.next \notin IssueNumbers
    /\ SetDB(save_issues(DB, session, issue_system_id, 1))
    /\ session' = [session EXCEPT !.done = TRUE]
    /\ UNCHANGED <<runVars, imported, resolved, tracker, obs>>

\* the next run of IssueSHARK.start, once process() has returned or has raised
GhNextRun ==
    /\ backend = "github"
    /\ session.done \/ err # "none"
    /\ StartRun

InitGithub == StoreInit /\ RunInit /\ GhEnvInit /\ backend = "github" /\ resolved = {}

NextGithub ==
    \/ \E x \in IssueNumbers, kind \in GhEdits : GhEdit(x, kind)
    \/ \E x \in IssueNumbers : GhEditBody(x)
    \/ \E x \in IssueNumbers, user \in {U_jane1, U_bob} : GhComment(x, user)
    \/ \E x \in IssueNumbers, k \in 1..MaxComments : GhEditComment(x, k)
    \/ \E x \in IssueNumbers : GhProcessIssue(x)
    \/ GhSaveIssues
    \/ GhNextRun

SpecGithub == InitGithub /\ [][NextGithub]_vars

\* the Issue persisted for the issue numbered x under the previous generation
GhPrevIssue(x) ==
    {d \in issues : last_system_id \in Members(d.issue_system_ids) /\ d.external_id = str(x)}

\* two documents agree in every field but the given ones
SameBut(old, new, fields) == \A f \in (DOMAIN new) \ fields : old[f] = new[f]

\* every document fetched for the issue has an equal document among those
\* persisted for the Issue d
GhItemsPersisted(field, docs, x, d) ==
    \A k \in DOMAIN ParsedItems(session, field, str(x)) :
        \E o \in docs : /\ o.issue_id = d.id
                        /\ SameBut(o, ParsedItems(session, field, str(x))[k], {"id", "issue_id"})

\* the issue numbered x was re-fetched, and it, its comments and its events
\* are equal to the versions persisted under the previous generation
GhUnchanged(x) ==
    /\ str(x) \in DOMAIN session.parsed_issues.issues
    /\ GhPrevIssue(x) # {}
    /\ \A d \in GhPrevIssue(x) :
           /\ SameBut(d, session.parsed_issues.issues[str(x)], {"id", "issue_system_ids"})
           /\ GhItemsPersisted("comments", comments, x, d)
           /\ GhItemsPersisted("events", events, x, d)

\* the ids of the Issue documents of the issue numbered x
GhIssueIds(docs, x) == {d.id : d \in {i \in docs : i.external_id = str(x)}}

\* C3: when save_issues runs and a re-fetched issue, its comments and its events
\* are equal to the versions persisted under the previous generation, the
\* persisted Issue gains the current generation id in issue_system_ids and keeps
\* every other field, and no Issue, Comment or Event document is written for
\* the issue.
C3_UnchangedIssueIsTagged ==
    [][(session'.done /\ ~session.done) =>
          \A x \in IssueNumbers :
              GhUnchanged(x) =>
                  /\ \A d \in GhPrevIssue(x) :
                         [d EXCEPT !.issue_system_ids = Append(@, issue_system_id)] \in issues'
                  /\ GhIssueIds(issues', x) = GhIssueIds(issues, x)
                  /\ {c \in comments' : c.issue_id \in GhIssueIds(issues, x)}
                         = {c \in comments : c.issue_id \in GhIssueIds(issues, x)}
                  /\ {e \in events' : e.issue_id \in GhIssueIds(issues, x)}
                         = {e \in events : e.issue_id \in GhIssueIds(issues, x)}]_vars

\* save_issues has tagged a persisted Issue, which has a comment and an event,
\* with a second generation
C3_Witness ==
    /\ backend = "github"
    /\ session.done
    /\ \E d \in issues :
           /\ Len(d.issue_system_ids) > 1
           /\ d.issue_system_ids[Len(d.issue_system_ids)] = issue_system_id
           /\ \E c \in comments : c.issue_id = d.id
           /\ \E e \in events : e.issue_id = d.id

\* the issue numbered x was re-fetched and differs from the version persisted
\* under the previous generation
GhIssueDiffers(x) ==
    /\ str(x) \in DOMAIN session.parsed_issues.issues
    /\ GhPrevIssue(x) # {}
    /\ \A d \in GhPrevIssue(x) :
           ~SameBut(d, session.parsed_issues.issues[str(x)], {"id", "issue_system_ids"})

\* C13: when save_issues runs and a re-fetched issue differs from its previously
\* persisted version, the new version is stored as a separate Issue document
\* tagged with the current generation only, and the previously persisted
\* document stays as it was, so that both versions are in the store afterwards.
C13_ChangedIssueIsStoredAnew ==
    [][(session'.done /\ ~session.done) =>
          \A x \in IssueNumbers :
              GhIssueDiffers(x) =>
                  /\ \A d \in GhPrevIssue(x) : d \in issues'
                  /\ \E n \in issues' \ issues :
                         /\ n.issue_system_ids = <<issue_system_id>>
                         /\ SameBut(n, session.parsed_issues.issues[str(x)], {"id"})
                  /\ Cardinality(GhIssueIds(issues', x)) = Cardinality(GhIssueIds(issues, x)) + 1]_vars

\* save_issues has stored a second version of an issue: two Issue documents of
\* one issue with different titles, one tagged with the previous generation
\* only, the other with the current one only
C13_Witness ==
    /\ backend = "github"
    /\ session.done
    /\ \E d \in issues : \E n \in issues :
           /\ d.external_id = n.external_id
           /\ d.title # n.title
           /\ d.issue_system_ids = <<last_system_id>>
           /\ n.issue_system_ids = <<issue_system_id>>

\* C16: no persisted Event has both old_value and new_value null, whatever
\* the type of the raw event it was made from.
C16_EventHasAValue ==
    \A e \in events : ~(e.old_value = NoVal /\ e.new_value = NoVal)

(***************************************************************************)
(* The comparison on its own: the calls of check_diff_issue and            *)
(* check_diff_comment_event that a backend makes for one issue of a run,   *)
(* first for the issue, then for its comments and events.  Each call gets  *)
(* the stored document, if there is one, and a new document that is the    *)
(* stored one re-fetched, with one field changed or with none.             *)
(***************************************************************************)
\* the comments and events compared for the issue, at most
MaxItems == 3

\* the documents stored under the previous generation
StoredGhIssue ==
    [GhNewIssue(1, "1") EXCEPT !.id = 5, !.title = T_1, !.desc = <<"d">>, !.status = GSt_open,
                               !.labels = <<L_a, L_b>>, !.updated_at = 1, !.reporter_id = 1,
                               !.creator_id = 1, !.assignee_id = 2]
StoredGhComment ==
    [id |-> 6, external_id |-> <<"1", "1">>, issue_id |-> 5, created_at |-> 1,
     author_id |-> 1, comment |-> <<"x">>]
StoredGhEvent ==
    [GhNewEvent(<<"1", "1">>, 1, "assigned") EXCEPT !.id = 7, !.issue_id = 5, !.author_id = 1,
                                                    !.new_value = PersonVal(2)]

\* what can have become of a field when the document is fetched again
IssueChanges   == {"nothing", "label order", "issue_links", "parent_issue_id", "title", "desc",
                   "status", "labels", "updated_at", "assignee_id"}
CommentChanges == {"nothing", "comment", "author_id", "created_at"}
EventChanges   == {"nothing", "status", "commit_sha", "author_id", "old_value", "new_value"}

\* the new, unsaved documents: no id, the current generation, no issue_id yet
FetchedGhIssue(change) ==
    LET same == [StoredGhIssue EXCEPT !.id = NoneId, !.issue_system_ids = <<2>>]
    IN  CASE change = "nothing"         -> same
          [] change = "label order"     -> [same EXCEPT !.labels = <<L_b, L_a>>]
          [] change = "issue_links"     -> [same EXCEPT !.issue_links = <<LinkVal(9, "Blocker", "blocks")>>]
          [] change = "parent_issue_id" -> [same EXCEPT !.parent_issue_id = 9]
          [] change = "title"           -> [same EXCEPT !.title = T_2]
          [] change = "desc"            -> [same EXCEPT !.desc = <<"e">>]
          [] change = "status"          -> [same EXCEPT !.status = GSt_closed]
          [] change = "labels"          -> [same EXCEPT !.labels = <<L_a>>]
          [] change = "updated_at"      -> [same EXCEPT !.updated_at = 2]
          [] change = "assignee_id"     -> [same EXCEPT !.assignee_id = NoneId]

FetchedGhComment(change) ==
    LET same == [StoredGhComment EXCEPT !.id = NoneId, !.issue_id = NoneId]
    IN  CASE change = "nothing"    -> same
          [] change = "comment"    -> [same EXCEPT !.comment = <<"y">>]
          [] change = "author_id"  -> [same EXCEPT !.author_id = 2]
          [] change = "created_at" -> [same EXCEPT !.created_at = 2]

FetchedGhEvent(change) ==
    LET same == [StoredGhEvent EXCEPT !.id = NoneId, !.issue_id = NoneId]
    IN  CASE change = "nothing"    -> same
          [] change = "status"     -> [same EXCEPT !.status = "unassigned"]
          [] change = "commit_sha" -> [same EXCEPT !.commit_sha = <<"s">>]
          [] change = "author_id"  -> [same EXCEPT !.author_id = 2]
          [] change = "old_value"  -> [same EXCEPT !.old_value = PersonVal(3)]
          [] change = "new_value"  -> [same EXCEPT !.new_value = PersonVal(3)]

\* no comparison made yet
DiffEnvInit ==
    /\ tracker = [fetched |-> 0]
    /\ obs = [last |-> [kind |-> None, change |-> None, lacks |-> FALSE, before |-> FALSE,
                        after |-> FALSE],
              prior |-> FALSE, due |-> FALSE]

\* the record of a call: what was compared, and issues_diff before and after
DiffCall(kind, change, lacks, sess) ==
    [kind |-> kind, change |-> change, lacks |-> lacks,
     before |-> IF session.issue_id \in DOMAIN session.issues_diff
                THEN session.issues_diff[session.issue_id] ELSE FALSE,
     after |-> sess.issues_diff[sess.issue_id]]

\* the versions differ in more than the generation ids, the store's
\* identifiers, the order of a list and an Issue's links and parent
RealChange(change) == change \notin {"nothing", "label order", "issue_links", "parent_issue_id"}

\* store_issue's comparison: self.issue_id is set, the stored Issue is there or
\* not, check_diff_issue
DiffIssue(prior, change) ==
    /\ backend = "github"
    /\ session.issue_id = None
    /\ LET old  == IF prior THEN {StoredGhIssue} ELSE {}
           sess == check_diff_issue([session EXCEPT !.issue_id = "1"], old,
                                    FetchedGhIssue(change))
       IN  /\ session' = sess
           /\ obs' = [last |-> DiffCall("issue", change, ~prior, sess), prior |-> prior,
                      due |-> ~prior \/ RealChange(change)]
    /\ UNCHANGED <<storeVars, peopleVars, nextId, runVars, refs, imported, tracker, resolved,
                   err>>

\* the comparison of one comment or event of the issue: the stored document is
\* there or not (never when the Issue is not), check_diff_comment_event
DiffItem(kind, found, change) ==
    /\ backend = "github"
    /\ session.issue_id = "1"
    /\ tracker.fetched < MaxItems
    /\ found => obs.prior
    /\ kind = "comment" => change \in CommentChanges
    /\ kind = "event" => change \in EventChanges
    /\ LET stored == IF kind = "comment" THEN StoredGhComment ELSE StoredGhEvent
           new    == IF kind = "comment" THEN FetchedGhComment(change)
                     ELSE FetchedGhEvent(change)
           sess   == check_diff_comment_event(session, IF found THEN {stored} ELSE {}, new)
       IN  /\ session' = sess
           /\ obs' = [obs EXCEPT !.last = DiffCall(kind, change, ~found, sess),
                                 !.due = @ \/ ~found \/ RealChange(change)]
    /\ tracker' = [tracker EXCEPT !.fetched = @ + 1]
    /\ UNCHANGED <<storeVars, peopleVars, nextId, runVars, refs, imported, resolved, err>>

InitDiff == StoreInit /\ RunInit /\ DiffEnvInit /\ backend = "github" /\ resolved = {}

NextDiff ==
    \/ \E prior \in BOOLEAN, change \in IssueChanges : DiffIssue(prior, change)
    \/ \E kind \in {"comment", "event"}, found \in BOOLEAN,
          change \in CommentChanges \cup EventChanges : DiffItem(kind, found, change)

SpecDiff == InitDiff /\ [][NextDiff]_vars

\* the issue in hand is marked changed
Marked(sess) ==
    sess.issue_id \in DOMAIN sess.issues_diff /\ sess.issues_diff[sess.issue_id]

\* C14: after every comparison of the run the issue is marked changed exactly
\* when it has no persisted version or the issue, or a comment or event
\* compared so far, differs from or lacks its persisted counterpart; an
\* issue that is marked stays marked.
C14_MarkedIffChanged ==
    [][/\ Marked(session') <=> obs'.due
       /\ Marked(session) => Marked(session')]_vars

\* C15: a comparison with a persisted counterpart, of an issue not marked yet,
\* marks the issue exactly when the versions differ in more than the
\* generation ids, the store's identifiers, the order of a list and, for an
\* Issue, the links and the parent: a changed comment text or event old or
\* new value marks it.
C15_OnlyExclusionsIgnored ==
    (obs.last.kind # None /\ ~obs.last.lacks /\ ~obs.last.before) =>
        (obs.last.after <=> RealChange(obs.last.change))

(***************************************************************************)
(* The classification of a link message on its own: the toString of a Link *)
(* history item, as the tracker words it, is classified once.  A message   *)
(* is a few pieces, each one of the phrases the classifier knows or        *)
(* something else (the words before a phrase, an issue key).               *)
(***************************************************************************)
\* the pieces a message is made of, at most
MaxPhrases == 2

\* the phrases of the if/elif chain with what each returns, in the chain's order
LinkPhraseTable ==
    <<
      [phrase |-> <<"Blocked">>, type |-> "Blocked", effect |-> "Blocked"],
      [phrase |-> <<"is", "blocked", "by">>, type |-> "Blocker", effect |-> "is blocked by"],
      [phrase |-> <<"issue", "blocks">>, type |-> "Blocker", effect |-> "blocks"],
      [phrase |-> <<"is", "cloned", "by">>, type |-> "Cloners", effect |-> "is cloned by"],
      [phrase |-> <<"is", "a", "clone", "of">>, type |-> "Cloners", effect |-> "is cloned by"],
      [phrase |-> <<"Is", "contained", "by">>, type |-> "Container", effect |-> "is contained by"],
      [phrase |-> <<"is", "contained", "by">>, type |-> "Container", effect |-> "is contained by"],
      [phrase |-> <<"contains">>, type |-> "Container", effect |-> "contains"],
      [phrase |-> <<"Dependent">>, type |-> "Dependent", effect |-> "Dependent"],
      [phrase |-> <<"is", "duplicated", "by">>, type |-> "Duplicate", effect |-> "is duplicated by"],
      [phrase |-> <<"duplicates">>, type |-> "Duplicate", effect |-> "duplicates"],
      [phrase |-> <<"is", "part", "of">>, type |-> "Incorporates", effect |-> "is part of"],
      [phrase |-> <<"incorporates">>, type |-> "Incorporates", effect |-> "incorporates"],
      [phrase |-> <<"is", "related", "to">>, type |-> "Reference", effect |-> "is related to"],
      [phrase |-> <<"relates", "to">>, type |-> "Reference", effect |-> "relates to"],
      [phrase |-> <<"is", "broken", "by">>, type |-> "Regression", effect |-> "is broken by"],
      [phrase |-> <<"breaks">>, type |-> "Regression", effect |-> "breaks"],
      [phrase |-> <<"is", "required", "by">>, type |-> "Required", effect |-> "is required by"],
      [phrase |-> <<"requires">>, type |-> "Required", effect |-> "requires"],
      [phrase |-> <<"is", "superceded", "by">>, type |-> "Supercedes", effect |-> "is superceded by"],
      [phrase |-> <<"supercedes">>, type |-> "Supercedes", effect |-> "supercedes"],
      [phrase |-> <<"is", "depended", "upon", "by">>, type |-> "Dependent", effect |-> "is depended upon by"],
      [phrase |-> <<"depends", "upon">>, type |-> "Dependent", effect |-> "depends upon"],
      [phrase |-> <<"depends", "on">>, type |-> "Dependent", effect |-> "depends on"]
    >>

\* what a message can hold besides the phrases
OtherWords == {<<"This", "issue">>, <<"DRILL-5">>}

MessagePieces == {LinkPhraseTable[k].phrase : k \in DOMAIN LinkPhraseTable} \cup OtherWords

\* the messages of at most n pieces
RECURSIVE LinkMessages(_)
LinkMessages(n) ==
    IF n = 0 THEN {<<>>}
    ELSE LinkMessages(n - 1) \cup {m \o piece : m \in LinkMessages(n - 1), piece \in MessagePieces}

\* the tracker holds one Link item, nothing is classified yet
LinkEnvInit ==
    /\ tracker \in {[toString |-> m] : m \in LinkMessages(MaxPhrases) \ {<<>>}}
    /\ obs = [classified |-> FALSE, te |-> [type |-> None, effect |-> None]]

\* one call of _get_issue_link_type_and_effect(toString)
JiraClassifyLink ==
    /\ backend = "jira"
    /\ ~obs.classified
    /\ obs' = [classified |-> TRUE, te |-> Jira_get_issue_link_type_and_effect(tracker.toString)]
    /\ UNCHANGED <<storeVars, peopleVars, nextId, runVars, refs, imported, tracker, session,
                   resolved, err>>

InitLinks == StoreInit /\ RunInit /\ LinkEnvInit /\ backend = "jira" /\ resolved = {}

NextLinks == JiraClassifyLink

SpecLinks == InitLinks /\ [][NextLinks]_vars

\* the phrase occurs somewhere in the message
Occurs(msg, phrase) == \E i \in 1..Len(msg) : \E j \in i..Len(msg) : SubSeq(msg, i, j) = phrase

\* the (type, effect) of the first phrase of the table that occurs in the message
FirstPhrase(msg) ==
    LET hits == {k \in DOMAIN LinkPhraseTable : Occurs(msg, LinkPhraseTable[k].phrase)}
    IN  IF hits = {} THEN [type |-> None, effect |-> None]
        ELSE LET k == CHOOSE h \in hits : \A o \in hits : h <= o
             IN  [type |-> LinkPhraseTable[k].type, effect |-> LinkPhraseTable[k].effect]

\* C12: the classifier returns the (type, effect) of the first phrase, in the
\* enumerated order, that occurs in the message; a message containing
\* 'is blocked by' is never classified as (Blocker, 'blocks'), and it is
\* classified as (Blocker, 'is blocked by') unless 'Blocked', the one phrase
\* enumerated before, occurs in it too.
C12_FirstPhraseDecides ==
    obs.classified =>
        /\ obs.te = FirstPhrase(tracker.toString)
        /\ Occurs(tracker.toString, <<"is", "blocked", "by">>) =>
               /\ obs.te # [type |-> "Blocker", effect |-> "blocks"]
               /\ ~Occurs(tracker.toString, <<"Blocked">>) =>
                      obs.te = [type |-> "Blocker", effect |-> "is blocked by"]

\* 'is blocked by DRILL-5' has been classified as (Blocker, 'is blocked by')
C12_Witness ==
    /\ obs.classified
    /\ tracker.toString = <<"is", "blocked", "by", "DRILL-5">>
    /\ obs.te = [type |-> "Blocker", effect |-> "is blocked by"]

\* C12 as stated: every message containing 'is blocked by' is classified as
\* (Blocker, 'is blocked by')
C12_EveryBlockedBy ==
    (obs.classified /\ Occurs(tracker.toString, <<"is", "blocked", "by">>)) =>
        obs.te = [type |-> "Blocker", effect |-> "is blocked by"]

(***************************************************************************)
(* The program as a whole: main.start parses the arguments into a Config   *)
(* and calls IssueSHARK.start, which connects, looks the project up, takes *)
(* the newest IssueSystem as the last one, saves a new IssueSystem, builds *)
(* the backend and calls its process().  An exception or an interrupt can  *)
(* end start at any point; sys.exit raises SystemExit.  main.start catches *)
(* KeyboardInterrupt and Exception, and then deletes the data of the last  *)
(* issue system of the tracker URL.                                        *)
(***************************************************************************)
\* the configurations a run is started with
Configs ==
    {[identifier |-> "github",   token |-> None, issue_user |-> None, issue_password |-> None],
     [identifier |-> "github",   token |-> "t",  issue_user |-> None, issue_password |-> None],
     [identifier |-> "jira",     token |-> None, issue_user |-> "u",  issue_password |-> "p"],
     [identifier |-> "jira",     token |-> "t",  issue_user |-> None, issue_password |-> None],
     [identifier |-> "bugzilla", token |-> None, issue_user |-> "u",  issue_password |-> "p"],
     [identifier |-> "bugzilla", token |-> None, issue_user |-> "u",  issue_password |-> None]}

\* Config.use_token(): a token was given
use_token(config) == config.token # None

\* the start of JiraBackend.process: the exception it raises, or "none"
Jira_process_start(config) ==
    IF use_token(config) THEN "JiraException" ELSE "none"

\* BugzillaAgent.__init__ without its check of the password
BugzillaAgent_init_unchecked(config) == "none"

\* BugzillaAgent.__init__(logger, config): the exception it raises, or "none"
BugzillaAgent_init(config) ==
    IF config.issue_user # None /\ config.issue_password = None
    THEN "BugzillaApiException" ELSE "none"

\* what process() does before it asks for the first page of issues
ProcessStart(config) ==
    CASE config.identifier = "jira"     -> Jira_process_start(config)
      [] config.identifier = "bugzilla" -> BugzillaAgent_init(config)
      [] OTHER                          -> "none"

\* an except clause that catches everything, SystemExit too
CatchesBaseException(exc) == TRUE

\* except (KeyboardInterrupt, Exception): SystemExit is neither
Catches(exc) == exc # "SystemExit"

\* what can end start at any point: an interrupt, or an exception of a call
Failures == {"KeyboardInterrupt", "Exception"}

\* the newest IssueSystem: .order_by('-collection_date').first(), or None
LastSystem(systems) ==
    IF systems = {} THEN NoneId ELSE CHOOSE g \in systems : \A o \in systems : o <= g

\* the Issue documents tagged with generation g, and the ids of these
IssuesTagged(docs, g) == {d \in docs : g \in Members(d.issue_system_ids)}
IdsTagged(docs, g) == {d.id : d \in IssuesTagged(docs, g)}

\* delete_last_system_data_on_failure('issue_system', cfg.tracking_url, ...): the
\* data of the last issue system of the URL is deleted, and the issue system
DeleteLastSystemData ==
    LET last == LastSystem(issue_systems)
    IN  /\ issues' = issues \ IssuesTagged(issues, last)
        /\ comments' = {c \in comments : c.issue_id \notin IdsTagged(issues, last)}
        /\ events' = {e \in events : e.issue_id \notin IdsTagged(issues, last)}
        /\ issue_systems' = issue_systems \ {last}

\* main.start is about to call IssueSHARK.start with the configuration
RunSession(config, run) ==
    [pc |-> "connect", config |-> config, exc |-> "none", code |-> 0, created |-> FALSE,
     run |-> run]

RunObs ==
    [cleaned |-> FALSE, failed |-> FALSE, nothing_to_do |-> FALSE, pages |-> 0,
     before |-> [issues |-> issues, comments |-> comments, events |-> events,
                 issue_systems |-> issue_systems]]

InitRun ==
    /\ issues = {} /\ events = {} /\ comments = {} /\ issue_systems = {}
    /\ people = {} /\ people_cache = EmptyMap /\ nextId = 1 /\ err = "none"
    /\ issue_system_id = NoneId /\ last_system_id = NoneId
    /\ refs = [x \in IssueNumbers |-> {}] /\ imported = [x \in IssueNumbers |-> {}]
    /\ resolved = {}
    /\ tracker = [first_page |-> 0]
    /\ \E config \in Configs :
           /\ session = RunSession(config, 1)
    /\ backend = None
    /\ obs = RunObs

\* the positions inside IssueSHARK.start, where an exception or interrupt can strike
StartPcs ==
    {"connect", "project", "last_system", "save_system", "backend", "process", "first_page",
     "issues", "items", "finish"}

RunUnchanged ==
    UNCHANGED <<people, people_cache, refs, imported, tracker, resolved, err>>

\* sys.exit(code), or an exception leaving the function
Raise(exc, code) == [session EXCEPT !.pc = "raised", !.exc = exc, !.code = code]

\* connect(...): IssueSHARK.start connects to the database
RunConnect ==
    /\ session.pc = "connect"
    /\ session' = [session EXCEPT !.pc = "project"]
    /\ UNCHANGED <<storeVars, nextId, runVars, obs>>
    /\ RunUnchanged

\* Project.objects.get(name=...): a project that is not there ends with sys.exit(1)
RunProject(found) ==
    /\ session.pc = "project"
    /\ session' = IF found THEN [session EXCEPT !.pc = "last_system"]
                           ELSE Raise("SystemExit", 1)
    /\ UNCHANGED <<storeVars, nextId, runVars, obs>>
    /\ RunUnchanged

\* the newest IssueSystem of the URL becomes the last system
RunLastSystem ==
    /\ session.pc = "last_system"
    /\ last_system_id' = LastSystem(issue_systems)
    /\ session' = [session EXCEPT !.pc = "save_system"]
    /\ UNCHANGED <<storeVars, nextId, backend, issue_system_id, obs>>
    /\ RunUnchanged

\* IssueSystem(project_id=..., url=..., collection_date=now).save()
RunSaveSystem ==
    /\ session.pc = "save_system"
    /\ issue_systems' = issue_systems \cup {nextId}
    /\ issue_system_id' = nextId
    /\ nextId' = nextId + 1
    /\ session' = [session EXCEPT !.pc = "backend", !.created = TRUE]
    /\ UNCHANGED <<issues, events, comments, backend, last_system_id, obs>>
    /\ RunUnchanged

\* BaseBackend.find_fitting_backend(cfg, issue_system.id, project.id, last_system_id)
RunFindBackend ==
    /\ session.pc = "backend"
    /\ backend' = session.config.identifier
    /\ session' = [session EXCEPT !.pc = "process"]
    /\ UNCHANGED <<storeVars, nextId, issue_system_id, last_system_id, obs>>
    /\ RunUnchanged

\* backend.process() up to its first request for issues
RunProcessStart ==
    /\ session.pc = "process"
    /\ LET e == ProcessStart(session.config)
       IN  IF e = "none"
           THEN /\ session' = [session EXCEPT !.pc = "first_page"]
                /\ obs' = obs
           ELSE /\ session' = Raise(e, 1)
                /\ obs' = [obs EXCEPT !.failed = TRUE]
    /\ UNCHANGED <<storeVars, nextId, runVars>>
    /\ RunUnchanged

\* the first page of issues is requested; with no issue on it, sys.exit(0)
RunFirstPage(n) ==
    /\ session.pc = "first_page"
    /\ IF n = 0
       THEN /\ session' = Raise("SystemExit", 0)
            /\ obs' = [obs EXCEPT !.pages = @ + 1, !.nothing_to_do = TRUE]
       ELSE /\ session' = [session EXCEPT !.pc = "issues"]
            /\ obs' = [obs EXCEPT !.pages = @ + 1]
    /\ UNCHANGED <<storeVars, nextId, runVars>>
    /\ RunUnchanged

\* an issue of the page is stored, tagged with the issue system of the run
RunStoreIssue ==
    /\ session.pc = "issues"
    /\ issues' = issues \cup {[id |-> nextId, external_id |-> <<"1">>,
                               issue_system_ids |-> <<issue_system_id>>]}
    /\ nextId' = nextId + 1
    /\ session' = [session EXCEPT !.pc = "items"]
    /\ UNCHANGED <<events, comments, issue_systems, runVars, obs>>
    /\ RunUnchanged

\* the comments and events of the issue are stored
RunStoreItems ==
    /\ session.pc = "items"
    /\ LET issue_id == CHOOSE i \in IdsTagged(issues, issue_system_id) : TRUE
       IN  /\ comments' = comments \cup {[id |-> nextId, issue_id |-> issue_id]}
           /\ events' = events \cup {[id |-> nextId + 1, issue_id |-> issue_id]}
    /\ nextId' = nextId + 2
    /\ session' = [session EXCEPT !.pc = "finish"]
    /\ UNCHANGED <<issues, issue_systems, runVars, obs>>
    /\ RunUnchanged

\* process() and IssueSHARK.start return, main.start returns: exit status 0
RunFinish ==
    /\ session.pc = "finish"
    /\ session' = [session EXCEPT !.pc = "exited", !.code = 0]
    /\ UNCHANGED <<storeVars, nextId, runVars, obs>>
    /\ RunUnchanged

\* an exception of a call, or an interrupt, ends IssueSHARK.start where it stands
RunFail(exc) ==
    /\ session.pc \in StartPcs
    /\ session' = Raise(exc, 1)
    /\ obs' = [obs EXCEPT !.failed = TRUE]
    /\ UNCHANGED <<storeVars, nextId, runVars>>
    /\ RunUnchanged

\* main.start: what was raised is caught, logged and cleaned up after, and the
\* function returns; SystemExit passes through and ends the process with its code
MainExcept ==
    /\ session.pc = "raised"
    /\ IF Catches(session.exc)
       THEN /\ DeleteLastSystemData
            /\ obs' = [obs EXCEPT !.cleaned = TRUE]
            /\ session' = [session EXCEPT !.pc = "exited", !.code = 0]
       ELSE /\ UNCHANGED <<storeVars, obs>>
            /\ session' = [session EXCEPT !.pc = "exited"]
    /\ UNCHANGED <<nextId, runVars>>
    /\ RunUnchanged

\* the program is started again, with the store as the run before left it
MainStart(config) ==
    /\ session.pc = "exited"
    /\ session.run < MaxRuns
    /\ session' = RunSession(config, session.run + 1)
    /\ obs' = RunObs
    /\ issue_system_id' = NoneId
    /\ last_system_id' = NoneId
    /\ backend' = None
    /\ UNCHANGED <<storeVars, nextId>>
    /\ RunUnchanged

NextRun ==
    \/ RunConnect
    \/ \E found \in BOOLEAN : RunProject(found)
    \/ RunLastSystem
    \/ RunSaveSystem
    \/ RunFindBackend
    \/ RunProcessStart
    \/ \E n \in {0, 1} : RunFirstPage(n)
    \/ RunStoreIssue
    \/ RunStoreItems
    \/ RunFinish
    \/ \E exc \in Failures : RunFail(exc)
    \/ MainExcept
    \/ \E config \in Configs : MainStart(config)

SpecRun == InitRun /\ [][NextRun]_vars

\* the store is as it was when the run started
StoreAsBefore ==
    /\ issues = obs.before.issues
    /\ comments = obs.before.comments
    /\ events = obs.before.events

\* C17: a run whose first page holds no issue ends with exit status 0, has
\* written no issue, comment or event, and the failure cleanup was not invoked.
C17_NothingToDoIsSuccess ==
    (session.pc = "exited" /\ obs.nothing_to_do) =>
        (session.code = 0 /\ ~obs.cleaned /\ StoreAsBefore)

C17_Witness ==
    /\ session.pc = "exited" /\ obs.nothing_to_do /\ obs.pages = 1
    /\ session.exc = "SystemExit" /\ session.created

\* C18: a run that an exception or interrupt escaping IssueSHARK.start has
\* ended exits with a status other than 0, after the cleanup.
C18_FailureExitsNonZero ==
    (session.pc = "exited" /\ obs.failed) => (obs.cleaned /\ session.code # 0)

\* the records of generation g in a store: its issues, their comments and events
RecordsOf(iss, cms, evs, g) ==
    [issues |-> IssuesTagged(iss, g),
     comments |-> {c \in cms : c.issue_id \in IdsTagged(iss, g)},
     events |-> {e \in evs : e.issue_id \in IdsTagged(iss, g)}]

AuthError(config) ==
    \/ config.identifier = "jira" /\ config.token # None
    \/ config.identifier = "bugzilla" /\ config.issue_user # None
                                      /\ config.issue_password = None

\* C20: a run with a configuration the backend refuses never requests a page
\* of issues and writes no issue, comment or event, and it does not end by
\* process() returning: an exception (or an exit before process()) ends it.
C20_AuthErrorAbortsBeforePaging ==
    AuthError(session.config) =>
        /\ obs.pages = 0
        /\ session.pc \notin {"first_page", "issues", "items", "finish"}
        /\ issues \subseteq obs.before.issues
        /\ comments \subseteq obs.before.comments
        /\ events \subseteq obs.before.events
        /\ session.pc = "exited" =>
               (obs.failed \/ (session.exc = "SystemExit" /\ backend = None))

C20_Witness ==
    /\ AuthError(session.config)
    /\ session.pc = "exited"
    /\ session.exc = "BugzillaApiException"
    /\ backend = "bugzilla"

(***************************************************************************)
(* Fetching a Jira issue.  process() hands the keys of a page one by one   *)
(* to _process_issue, which asks the client for the issue until an attempt *)
(* succeeds or 300 seconds have passed since the first attempt, sleeping   *)
(* 30 seconds after a failed attempt.  Time is counted in seconds since    *)
(* timeout_start; an attempt itself takes some time too.                   *)
(***************************************************************************)
\* timeout = 300  # 5 minutes
JiraTimeout == 300

\* time.sleep(30) after a JIRAError
JiraSleep == 30

\* how long one request can take, in seconds
Durations == {0, 10}

\* process() about to hand the first key of the page to _process_issue
FetchSession ==
    [pc |-> "page", next |-> 1, issue_not_retrieved |-> TRUE, elapsed |-> 0]

\* nothing fetched, skipped or processed yet
FetchObs ==
    [fetched |-> {}, failed |-> {}, skipped |-> {}, processed |-> {}, logged |-> {},
     before |-> [issues |-> {}, events |-> {}, comments |-> {}]]

InitJiraFetch ==
    /\ StoreInit
    /\ issue_system_id = 1 /\ last_system_id = NoneId
    /\ refs = [x \in IssueNumbers |-> {}] /\ imported = [x \in IssueNumbers |-> {}]
    /\ backend = "jira" /\ resolved = {}
    /\ tracker = [live |-> [x \in IssueNumbers |-> RawJira(x)]]
    /\ session = FetchSession
    /\ obs = FetchObs

\* for issue in issues: self._process_issue(issue.key), up to the retry loop
JiraNextIssue ==
    /\ session.pc = "page"
    /\ session.next \in IssueNumbers
    /\ session' = [session EXCEPT !.pc = "fetch", !.issue_not_retrieved = TRUE, !.elapsed = 0]
    /\ obs' = [obs EXCEPT !.before = [issues |-> issues, events |-> events,
                                      comments |-> comments]]
    /\ UNCHANGED <<storeVars, peopleVars, nextId, runVars, refs, imported, tracker, resolved,
                   err>>

\* one pass of the retry loop: self.jira_client.issue(issue_key, expand='changelog')
\* returns after d seconds, or raises JIRAError after d seconds and 30 seconds are slept
JiraFetchAttempt(ok, d) ==
    /\ session.pc = "fetch"
    /\ session.issue_not_retrieved /\ session.elapsed < JiraTimeout
    /\ session' = [session EXCEPT !.issue_not_retrieved = ~ok,
                                  !.elapsed = @ + d + (IF ok THEN 0 ELSE JiraSleep)]
    /\ obs' = IF ok THEN [obs EXCEPT !.fetched = @ \cup {session.next}]
                    ELSE [obs EXCEPT !.failed = @ \cup {session.next}]
    /\ UNCHANGED <<storeVars, peopleVars, nextId, runVars, refs, imported, tracker, resolved,
                   err>>

\* the rest of _process_issue once the loop has ended: with the time used up the
\* error is logged and the call returns, otherwise the issue is transformed and
\* stored; process() goes on with the next key
JiraAfterFetch ==
    /\ session.pc = "fetch"
    /\ ~(session.issue_not_retrieved /\ session.elapsed < JiraTimeout)
    /\ LET x == session.next
       IN  IF session.elapsed >= JiraTimeout
           THEN /\ obs' = [obs EXCEPT !.skipped = @ \cup {x}, !.logged = @ \cup {x}]
                /\ UNCHANGED <<storeVars, peopleVars, nextId, err, refs>>
           ELSE /\ SetDB(Jira_process_issue(DB, issue_system_id,
                             [fields |-> tracker.live[x], histories |-> <<>>,
                              comments |-> <<>>]))
                /\ obs' = [obs EXCEPT !.processed = @ \cup {x}]
    /\ session' = [session EXCEPT !.pc = "page", !.next = @ + 1]
    /\ UNCHANGED <<runVars, imported, tracker, resolved>>

NextJiraFetch ==
    \/ JiraNextIssue
    \/ \E ok \in BOOLEAN, d \in Durations : JiraFetchAttempt(ok, d)
    \/ JiraAfterFetch

SpecJiraFetch == InitJiraFetch /\ [][NextJiraFetch]_vars

\* C21: an issue _process_issue has dealt with was skipped exactly when no fetch
\* attempt for it succeeded; a skipped issue is logged and nothing was written
\* for it, a fetched issue is stored, and the next issue is taken up either way.
C21_SkippedIffNeverFetched ==
    \A x \in IssueNumbers :
        x < session.next =>
            /\ x \in obs.skipped <=> x \notin obs.fetched
            /\ x \in obs.skipped => (x \in obs.logged /\ StoredIssue(x) = {})
            /\ x \in obs.fetched => StoredIssue(x) # {}

(***************************************************************************)
(* The requests of the Bugzilla backend.  process() asks for a page of     *)
(* bugs and, for every bug of it, _process_issue asks for the comments and *)
(* the history, stores the issue and its events, asks for the user who     *)
(* wrote a comment when that user is not yet in self.people, and stores    *)
(* the comments.  Every request goes through BugzillaAgent._send_request.  *)
(* Time is counted in seconds since timeout_start.                         *)
(***************************************************************************)
\* timeout = 300  # 5 minutes
BzTimeout == 300

\* time.sleep(10) after an exception
BzSleep == 10

\* what requests.get can bring: a 200 response with a JSON body, a 200 response
\* whose body is no JSON, another status with a JSON body that has a 'message',
\* another status with any other body, or an exception of the network
Responses == {"ok", "ok_text", "error_json", "error_text", "network"}

\* resp.status_code, 0 when there is no response
StatusCode(resp) ==
    CASE resp \in {"ok", "ok_text"}            -> 200
      [] resp \in {"error_json", "error_text"} -> 500
      [] OTHER                                 -> 0

\* the locals of _send_request before the loop, for a call of the given kind
NewRequest(call) ==
    [call |-> call, got_no_response |-> TRUE, elapsed |-> 0, returned |-> FALSE,
     result |-> None, status |-> 0, waits |-> <<>>]

\* time.sleep(10): the last two waits are remembered
Slept(req, d) ==
    [req EXCEPT !.elapsed = @ + d + BzSleep,
                !.waits = IF Len(@) < 2 THEN Append(@, BzSleep) ELSE <<@[2], BzSleep>>]

\* one pass of the loop of _send_request, the response arriving after d seconds
Bz_send_attempt(req, resp, d) ==
    LET got == [req EXCEPT !.status = StatusCode(resp)]
    IN  CASE resp = "network"    -> Slept(got, d)
          [] resp = "error_text" -> Slept(got, d)
          [] resp = "error_json" -> [got EXCEPT !.elapsed = @ + d, !.returned = TRUE,
                                               !.result = "error_body"]
          [] resp = "ok_text"    -> Slept([got EXCEPT !.got_no_response = FALSE], d)
          [] resp = "ok"         -> [got EXCEPT !.got_no_response = FALSE, !.elapsed = @ + d,
                                               !.returned = TRUE, !.result = "body"]

\* the loop goes on
Bz_send_again(req) == req.got_no_response /\ req.elapsed < BzTimeout

\* what indexing the result of _send_request with the keys of the answer raises
Unpack(result) ==
    CASE result = None         -> "TypeError"
      [] result = "error_body" -> "KeyError"
      [] OTHER                 -> "none"

\* the comments the tracker holds for every bug: the description and one comment
BzFetchComments(x) ==
    <<[id |-> 10 * x, count |-> 0, creator |-> U_jane1, text |-> "a"],
      [id |-> 10 * x + 1, count |-> 1, creator |-> U_bob, text |-> "b"]>>

BzFetchSession ==
    [pc |-> "request", next |-> 1, mongo_issue_id |-> NoneId, req |-> NewRequest("page")]

BzFetchObs ==
    [exhausted |-> {}, stored |-> {}]

InitBzFetch ==
    /\ StoreInit
    /\ issue_system_id = 1 /\ last_system_id = NoneId
    /\ refs = [x \in IssueNumbers |-> {}] /\ imported = [x \in IssueNumbers |-> {}]
    /\ backend = "bugzilla" /\ resolved = {}
    /\ tracker = [live |-> [x \in IssueNumbers |-> RawBz(x, <<>>, <<>>, NoneId)],
                  hist |-> [x \in IssueNumbers |-> <<>>],
                  comments |-> [x \in IssueNumbers |-> BzFetchComments(x)]]
    /\ session = BzFetchSession
    /\ obs = BzFetchObs

\* one pass of the loop of _send_request
BzSendAttempt(resp, d) ==
    /\ session.pc = "request"
    /\ Bz_send_again(session.req)
    /\ LET req == Bz_send_attempt(session.req, resp, d)
       IN  session' = [session EXCEPT !.req = req,
                                      !.pc = IF req.returned THEN "unpack" ELSE "request"]
    /\ UNCHANGED <<storeVars, peopleVars, nextId, runVars, refs, imported, tracker, obs,
                   resolved, err>>

\* the loop has ended without a return: the error is logged, None is returned
BzSendGivesUp ==
    /\ session.pc = "request"
    /\ ~Bz_send_again(session.req)
    /\ session' = [session EXCEPT !.pc = "unpack", !.req.returned = TRUE, !.req.result = None]
    /\ obs' = IF session.req.got_no_response
              THEN [obs EXCEPT !.exhausted = @ \cup {[call |-> session.req.call,
                                                      issue |-> session.next]}]
              ELSE obs
    /\ UNCHANGED <<storeVars, peopleVars, nextId, runVars, refs, imported, tracker, resolved,
                   err>>

\* an exception leaves _process_issue and process(): the run is over
BzRaise(exc) ==
    /\ session' = [session EXCEPT !.pc = "raised"]
    /\ err' = exc
    /\ UNCHANGED <<storeVars, peopleVars, nextId, refs>>

\* what the caller does with the answer, up to its next request
BzUnpack ==
    /\ session.pc = "unpack"
    /\ LET x == session.next
           call == session.req.call
           exc == Unpack(session.req.result)
           Ask(c) == [session EXCEPT !.pc = "request", !.req = NewRequest(c)]
           \* the comments are stored, and process() takes the next bug or asks
           \* for the next page
           Comments(db) ==
               /\ SetDB(CHOOSE out \in
                         {Bz_process_comments(v, session.mongo_issue_id, tracker.comments[x]) :
                              v \in {db}} : TRUE)
               /\ session' = [Ask(IF x + 1 \in IssueNumbers THEN "comments" ELSE "page")
                                  EXCEPT !.next = x + 1]
       IN  CASE call = "page" ->
                    \* get_bug_list(...)['bugs']: the bugs of the first page, none on the next
                    IF exc # "none" THEN BzRaise(exc)
                    ELSE /\ session' = IF x \in IssueNumbers THEN Ask("comments")
                                       ELSE [session EXCEPT !.pc = "done"]
                         /\ UNCHANGED <<storeVars, peopleVars, nextId, refs, err>>
             [] call = "comments" ->
                    IF exc # "none" THEN BzRaise(exc)
                    ELSE /\ session' = Ask("history")
                         /\ UNCHANGED <<storeVars, peopleVars, nextId, refs, err>>
             [] call = "history" ->
                    IF exc # "none" THEN BzRaise(exc)
                    ELSE LET Stored(t) ==
                                 [db |-> Bz_store_events(t.db, issue_system_id,
                                                         tracker.hist[x], x, t.doc.id),
                                  id |-> t.doc.id]
                             r == CHOOSE out \in {Stored(v) : v \in
                                      {Bz_transform_issue(DB, issue_system_id,
                                                          tracker.live[x])}} : TRUE
                         IN  IF U_bob \in DOMAIN r.db.cache
                             THEN /\ SetDB(CHOOSE out \in
                                            {Bz_process_comments(v, r.id, tracker.comments[x]) :
                                                 v \in {r.db}} : TRUE)
                                  /\ session' =
                                         [Ask(IF x + 1 \in IssueNumbers THEN "comments"
                                                                       ELSE "page")
                                              EXCEPT !.next = x + 1, !.mongo_issue_id = r.id]
                             ELSE /\ SetDB(r.db)
                                  /\ session' = [Ask("user") EXCEPT !.mongo_issue_id = r.id]
             [] call = "user" ->
                    \* get_user: a KeyError makes the user None, and _get_people then
                    \* takes the user name for the name
                    IF exc = "TypeError" THEN BzRaise(exc)
                    ELSE IF exc = "KeyError"
                    THEN Comments(Bz_get_people(DB, U_bob, E_nobody, U_bob).db)
                    ELSE Comments(DB)
    /\ obs' = IF session.req.call \in {"history", "user"} /\ err' = "none"
              THEN [obs EXCEPT !.stored = @ \cup {session.next}]
              ELSE obs
    /\ UNCHANGED <<runVars, imported, tracker, resolved>>

NextBzFetch ==
    \/ \E resp \in Responses, d \in Durations : BzSendAttempt(resp, d)
    \/ BzSendGivesUp
    \/ BzUnpack

SpecBzFetch == InitBzFetch /\ [][NextBzFetch]_vars

\* C22: once a request for the comments, the history or a user of an issue has
\* used up its 300 seconds and the caller has dealt with the answer, the run
\* has not ended with an exception and process() has gone on to the next issue.
C22_ItemExhaustionSkipsIssue ==
    \A e \in obs.exhausted :
        (e.call # "page" /\ session.pc # "unpack") =>
            (err = "none" /\ session.pc # "raised" /\ session.next > e.issue)

\* C23: _send_request hands a body to its caller only for a response with
\* status 200, gives up (returns nothing) only when 300 seconds have passed
\* since the first attempt, and of two waits in a row the later is the longer.
C23_RetriesUntilSuccessOrTimeout ==
    /\ session.req.returned =>
           /\ session.req.result # None => session.req.status = 200
           /\ session.req.result = None => session.req.elapsed >= BzTimeout
    /\ Len(session.req.waits) = 2 => session.req.waits[2] > session.req.waits[1]

(***************************************************************************)
(* The requests of the GitHub backend.  _send_request tries a request up   *)
(* to three times, two seconds apart, until a response has status 200; a   *)
(* 200 response that leaves at most one request of the rate limit makes it *)
(* sleep until the reset time and 10 seconds more and ask again.  Time is  *)
(* counted in seconds since the call; the body of a response is named by   *)
(* the number of the request that brought it.                              *)
(***************************************************************************)
\* while tries <= 3
GhTries == 3

\* time.sleep(2) after a response that is not 200
GhErrorSleep == 2

\* the seconds added to the waiting time
GhMargin == 10

\* the number of calls of _send_request the model follows
MaxCalls == 2

\* the responses of GitHub: the status, whether the rate limit headers are
\* there, the requests remaining, and the seconds until the limit is reset
GhResponses ==
    {[status |-> st, limited |-> lim, remaining |-> rem, reset_in |-> rs] :
         st \in {200, 403}, lim \in BOOLEAN, rem \in {0, 1, 2}, rs \in {0, 60}}
        \ {r \in [status : {200, 403}, limited : {FALSE}, remaining : {0, 1, 2},
                  reset_in : {0, 60}] : r.remaining # 2 \/ r.reset_in # 0}

\* 'X-RateLimit-Remaining' in resp.headers and int(resp.headers['X-RateLimit-Remaining']) <= 1
GhLimitUsedUp(resp) == resp.limited /\ resp.remaining <= 1

\* _send_request is called: tries = 1, nothing sent
GhCallSession(n) ==
    [pc |-> "loop", call |-> n, tries |-> 1, now |-> 0, sent |-> 0, result |-> 0,
     resp |-> [status |-> 0, limited |-> FALSE, remaining |-> 2, reset_in |-> 0]]

GhNoPass ==
    [seen |-> FALSE, used_up |-> FALSE, slept |-> 0, until |-> 0, reset_at |-> 0,
     reissued |-> 0, returned |-> FALSE, second |-> 0]

InitGhRequest ==
    /\ StoreInit
    /\ issue_system_id = 1 /\ last_system_id = NoneId
    /\ refs = [x \in IssueNumbers |-> {}] /\ imported = [x \in IssueNumbers |-> {}]
    /\ backend = "github" /\ resolved = {}
    /\ tracker = [answers |-> 0]
    /\ session = GhCallSession(1)
    /\ obs = GhNoPass

\* one pass of the loop of _send_request: resp answers the request, and again
\* answers the request made after waiting for the reset
GhSendPass(resp, again) ==
    /\ session.pc = "loop"
    /\ session.tries <= GhTries
    /\ IF resp.status # 200
       THEN /\ session' = [session EXCEPT !.tries = @ + 1, !.now = @ + GhErrorSleep,
                                          !.sent = @ + 1, !.resp = resp]
            /\ obs' = [GhNoPass EXCEPT !.seen = TRUE, !.used_up = GhLimitUsedUp(resp),
                                       !.slept = GhErrorSleep,
                                       !.until = session.now + GhErrorSleep,
                                       !.reset_at = session.now + resp.reset_in]
       ELSE IF GhLimitUsedUp(resp)
       THEN LET waiting_time == resp.reset_in + GhMargin
            IN  /\ session' = [session EXCEPT !.pc = "returned", !.now = @ + waiting_time,
                                              !.sent = @ + 2, !.result = session.sent + 2,
                                              !.resp = again]
                /\ obs' = [GhNoPass EXCEPT !.seen = TRUE, !.used_up = TRUE,
                                           !.slept = waiting_time,
                                           !.until = session.now + waiting_time,
                                           !.reset_at = session.now + resp.reset_in,
                                           !.reissued = 1, !.returned = TRUE,
                                           !.second = session.sent + 2]
       ELSE /\ session' = [session EXCEPT !.pc = "returned", !.sent = @ + 1,
                                          !.result = session.sent + 1, !.resp = resp]
            /\ obs' = [GhNoPass EXCEPT !.seen = TRUE, !.returned = TRUE]
    /\ tracker' = [tracker EXCEPT !.answers = session'.sent]
    /\ UNCHANGED <<storeVars, peopleVars, nextId, runVars, refs, imported, resolved, err>>

\* raise RequestException(...) after the third try
GhSendFails ==
    /\ session.pc = "loop"
    /\ session.tries > GhTries
    /\ session' = [session EXCEPT !.pc = "raised"]
    /\ err' = "RequestException"
    /\ obs' = GhNoPass
    /\ UNCHANGED <<storeVars, peopleVars, nextId, runVars, refs, imported, resolved, tracker>>

\* the backend calls _send_request for its next url
GhNextCall ==
    /\ session.pc = "returned"
    /\ session.call < MaxCalls
    /\ session' = GhCallSession(session.call + 1)
    /\ obs' = GhNoPass
    /\ tracker' = [tracker EXCEPT !.answers = 0]
    /\ UNCHANGED <<storeVars, peopleVars, nextId, runVars, refs, imported, resolved, err>>

NextGhRequest ==
    \/ \E resp \in GhResponses, again \in GhResponses : GhSendPass(resp, again)
    \/ GhSendFails
    \/ GhNextCall

SpecGhRequest == InitGhRequest /\ [][NextGhRequest]_vars

\* C24: after a pass of the loop whose response left at most one request of
\* the rate limit, _send_request has slept until the reset time and 10 seconds
\* more, has sent the request once more, and has returned the body of that
\* second response.
C24_LimitWaitsAndRetriesOnce ==
    (obs.seen /\ obs.used_up) =>
        /\ obs.until = obs.reset_at + GhMargin
        /\ obs.reissued = 1
        /\ obs.returned /\ session.pc = "returned" /\ session.result = obs.second

(***************************************************************************)
(* History items of fields the backends have no mapping for.  An issue's   *)
(* history holds one entry with one item; the backend processes the issue  *)
(* as process() does for every issue of a page.                            *)
(***************************************************************************)
\* names a tracker can give the field of a history item: Bugzilla's cc and
\* priority, Jira's Workflow, and a custom field an administrator named platform
RawFieldNames == {"cc", "priority", "Workflow", "platform"}

\* the keys of at_mapping of bugzilla_old.py and of jirabackend.py
Old_at_keys ==
    {"assigned_to_detail", "blocks", "component", "creation_time", "creator_detail",
     "depends_on", "dupe_of", "keywords", "last_change_time", "op_sys", "platform",
     "resolution", "severity", "status", "summary", "target_milestone", "version"}
Jira_at_keys ==
    {"summary", "description", "created", "updated", "creator", "reporter", "issuetype",
     "priority", "status", "versions", "components", "labels", "resolution", "fixVersions",
     "assignee", "issuelinks", "parent", "timeoriginalestimate", "environment"}

\* the field name of a history item has an entry in the backend's at_mapping
HasMapping(identifier, name) ==
    CASE identifier = "bugzilla"    -> Bz_at_mapping(name).found
      [] identifier = "bugzillaOld" -> name \in Old_at_keys
      [] identifier = "jira"        -> Jira_terminology_mapping(name) \in Jira_at_keys

\* the raw values of an item
RawValues == {<<>>, <<"x">>, <<"y">>}

\* what _process_issue does for issue x whose history is the one item
ProcessWithItem(db, identifier, x, name, removed, added) ==
    CASE identifier = "bugzilla" ->
             LET Stored(t) ==
                     Bz_store_events(t.db, issue_system_id,
                                     <<[when |-> 1, who |-> U_bob,
                                        changes |-> <<BzChange(name, removed, added)>>]>>,
                                     x, t.doc.id)
             IN  CHOOSE out \in {Stored(v) : v \in
                    {Bz_transform_issue(db, issue_system_id, RawBz(x, <<>>, <<>>, NoneId))}} : TRUE
      [] identifier = "bugzillaOld" ->
             Old_process_issue(db, issue_system_id, RawBz(x, <<>>, <<>>, NoneId), <<>>,
                               <<[when |-> 1, who |-> U_bob,
                                  changes |-> <<BzChange(name, removed, added)>>]>>)
      [] identifier = "jira" ->
             Jira_process_issue(db, issue_system_id,
                                [fields |-> RawJira(x),
                                 histories |-> <<[id |-> 10 * x + 1, created |-> 1,
                                                  author |-> U_jane1,
                                                  items |-> <<JiraItem(name, NoneS, removed,
                                                                       NoneS, added)>>]>>,
                                 comments |-> <<>>])

\* what _process_issue does for issue x when its history is empty
ProcessWithoutItem(db, identifier, x) ==
    CASE identifier = "bugzilla" ->
             Bz_transform_issue(db, issue_system_id, RawBz(x, <<>>, <<>>, NoneId)).db
      [] identifier = "bugzillaOld" ->
             Old_process_issue(db, issue_system_id, RawBz(x, <<>>, <<>>, NoneId), <<>>, <<>>)
      [] identifier = "jira" ->
             Jira_process_issue(db, issue_system_id,
                                [fields |-> RawJira(x), histories |-> <<>>, comments |-> <<>>])

\* the Issues of the issue system with the external id, without their ObjectIds
IssueFields(docs, x) ==
    {[i EXCEPT !.id = NoneId] :
        i \in {d \in docs : d.issue_system_id = issue_system_id /\ d.external_id = str(x)}}

NoItem == [issue |-> 0, name |-> None, plain |-> {}]

InitUnmapped ==
    /\ StoreInit
    /\ issue_system_id = 1 /\ last_system_id = NoneId
    /\ refs = [x \in IssueNumbers |-> {}] /\ imported = [x \in IssueNumbers |-> {}]
    /\ backend \in {"bugzilla", "bugzillaOld", "jira"} /\ resolved = {}
    /\ tracker = [items |-> 0]
    /\ session = [next |-> 1]
    /\ obs = [last |-> NoItem]

\* process() comes to issue x, whose one history item is of a field without a mapping
ProcessUnmapped(x, name, removed, added) ==
    /\ err = "none"
    /\ session.next = x
    /\ ~HasMapping(backend, name)
    /\ removed # added
    /\ SetDB(ProcessWithItem(DB, backend, x, name, removed, added))
    /\ session' = [session EXCEPT !.next = x + 1]
    /\ obs' = [obs EXCEPT !.last =
                  [issue |-> x, name |-> name,
                   plain |-> IssueFields(ProcessWithoutItem(DB, backend, x).issues, x)]]
    /\ tracker' = [tracker EXCEPT !.items = @ + 1]
    /\ UNCHANGED <<runVars, imported, resolved>>

NextUnmapped ==
    \E x \in IssueNumbers, name \in RawFieldNames, removed \in RawValues, added \in RawValues :
        ProcessUnmapped(x, name, removed, added)

SpecUnmapped == InitUnmapped /\ [][NextUnmapped]_vars

\* C25: once an issue with a history item of a field without a mapping has been
\* processed, no exception has ended the run and the store holds an event of
\* the issue whose status is the raw field name.
C25_UnmappedFieldKeepsRawName ==
    obs.last.name # None =>
        /\ err = "none"
        /\ \E e \in events :
               /\ e.status = obs.last.name
               /\ \E doc \in StoredIssue(obs.last.issue) : e.issue_id = doc.id

(***************************************************************************)
(* _process_issue of the Jira backend for issues whose changelog holds one *)
(* change of the issue links: a link that was added is in the issue as the *)
(* tracker returns it, a link that was removed is not.  The text of the    *)
(* change is one the tracker writes for a known link type or for another.  *)
(***************************************************************************)
\* a link type _get_issue_link_type_and_effect has no phrase for
LinkTypeMention == [name |-> "Mention", outward |-> "mentions", inward |-> "is mentioned by"]

\* the issues of the project
LinkKeys == {1, 2, 3}

\* the texts of a link change to the issue named key
LinkChangeTexts(key) ==
    {LinkMessage(key), <<"This", "issue", "mentions", str(key)>>, <<str(key)>>}

\* the message contains none of the phrases of _get_issue_link_type_and_effect
UnknownPhrase(msg_string) == Jira_get_issue_link_type_and_effect(msg_string).effect = None

\* the issue x as the client returns it when its one link change is the link to
\* key: added (direction "to") or removed (direction "from")
JiraIssueWithLinkChange(x, key, direction, msg_string) ==
    [fields |-> [RawJira(x) EXCEPT !.issuelinks =
                    IF direction = "to"
                    THEN <<[key |-> key, direction |-> "outward",
                            type |-> IF UnknownPhrase(msg_string) THEN LinkTypeMention
                                     ELSE LinkTypeBlocker]>>
                    ELSE <<>>],
     histories |-> <<[id |-> 10 * x + 1, created |-> 1, author |-> U_jane1,
                      items |-> <<IF direction = "to"
                                  THEN JiraItem("Link", NoneS, NoneS, Chars(key), msg_string)
                                  ELSE JiraItem("Link", Chars(key), msg_string, NoneS, NoneS)>>]>>,
     comments |-> <<>>]

NoLinkChange == [issue |-> 0, key |-> 0, direction |-> None, unknown |-> FALSE]

InitUnknownLink ==
    /\ StoreInit
    /\ issue_system_id = 1 /\ last_system_id = NoneId
    /\ refs = [x \in LinkKeys |-> {}] /\ imported = [x \in IssueNumbers |-> {}]
    /\ backend = "jira" /\ resolved = {}
    /\ tracker = [items |-> 0]
    /\ session = [next |-> 1]
    /\ obs = [last |-> NoLinkChange]

\* process() comes to issue x, whose changelog holds the one link change
ProcessLinkChange(x, key, direction, msg_string) ==
    /\ err = "none"
    /\ session.next = x
    /\ key # x
    /\ SetDB(Jira_process_issue(DB, issue_system_id,
                                JiraIssueWithLinkChange(x, key, direction, msg_string)))
    /\ session' = [session EXCEPT !.next = x + 1]
    /\ obs' = [obs EXCEPT !.last = [issue |-> x, key |-> key, direction |-> direction,
                                    unknown |-> UnknownPhrase(msg_string)]]
    /\ tracker' = [tracker EXCEPT !.items = @ + 1]
    /\ UNCHANGED <<runVars, imported, resolved>>

NextUnknownLink ==
    \E x \in LinkKeys, key \in LinkKeys, direction \in {"to", "from"} :
        \E msg_string \in LinkChangeTexts(key) : ProcessLinkChange(x, key, direction, msg_string)

SpecUnknownLink == InitUnknownLink /\ [][NextUnknownLink]_vars

\* the links of the event stored for the link change of issue x, as they were
\* before the change
LinksBeforeChange(x) ==
    UNION {{e.old_value.links[k] : k \in DOMAIN e.old_value.links} : e \in {ev \in events :
        ev.status = "issue_links" /\ \E doc \in StoredIssue(x) : ev.issue_id = doc.id}}

\* C26: once an issue whose link change has a text with none of the known
\* phrases has been processed, no exception has ended the run, and the link
\* the change removed is recorded with an effect taken from the text.
C26_UnknownLinkPhraseRecovered ==
    obs.last.unknown =>
        /\ err = "none"
        /\ obs.last.direction = "from" =>
               \E l \in LinksBeforeChange(obs.last.issue) : l.effect # None

\* the raw bug names itself as the target of one of its links
SelfLinked(raw) ==
    \/ \E k \in DOMAIN raw.blocks : raw.blocks[k] = raw.id
    \/ \E k \in DOMAIN raw.depends_on : raw.depends_on[k] = raw.id
    \/ raw.dupe_of = raw.id

\* C27: when _transform_issue maps and saves a raw bug that links to itself, no
\* exception is raised, the saved Issue has no link to itself, and at most the
\* Issue of the bug is added to the store.
C27_SelfLinkDropped ==
    [][\A raw \in RawBzIssues :
          (SelfLinked(raw) /\ BzTransformIssue(raw)) =>
              /\ err' = "none"
              /\ Cardinality(issues') <= Cardinality(issues) + 1
              /\ \A doc \in issues' :
                     (doc.issue_system_id = issue_system_id /\ doc.external_id = str(raw.id))
                         => \A k \in DOMAIN doc.issue_links : doc.issue_links[k].issue_id # doc.id]_vars

(***************************************************************************)
(* _store_events of bugzilla.py for issues whose history is one change of  *)
(* a field that holds neither a person nor a link; the removed and the     *)
(* added value are None, empty or a text.                                  *)
(***************************************************************************)
PlainFieldNames == {"status", "summary", "cc", "priority"}

PlainValues == RawValues \cup {NoneS}

NoChange == [issue |-> 0, name |-> None, removed |-> NoneS, added |-> NoneS]

InitPlainEvent ==
    /\ StoreInit
    /\ issue_system_id = 1 /\ last_system_id = NoneId
    /\ refs = [x \in IssueNumbers |-> {}] /\ imported = [x \in IssueNumbers |-> {}]
    /\ backend = "bugzilla" /\ resolved = {}
    /\ tracker = [items |-> 0]
    /\ session = [next |-> 1]
    /\ obs = [last |-> NoChange]

\* process() comes to issue x, whose history is the one change
ProcessPlainChange(x, name, removed, added) ==
    /\ err = "none"
    /\ session.next = x
    /\ Bz_event_kind(Bz_at_mapping(name).mongo, name) = "other"
    /\ removed # added
    /\ SetDB(ProcessWithItem(DB, backend, x, name, removed, added))
    /\ session' = [session EXCEPT !.next = x + 1]
    /\ obs' = [obs EXCEPT !.last = [issue |-> x, name |-> name, removed |-> removed,
                                    added |-> added]]
    /\ tracker' = [tracker EXCEPT !.items = @ + 1]
    /\ UNCHANGED <<runVars, imported, resolved>>

NextPlainEvent ==
    \E x \in IssueNumbers, name \in PlainFieldNames, removed \in PlainValues,
       added \in PlainValues : ProcessPlainChange(x, name, removed, added)

SpecPlainEvent == InitPlainEvent /\ [][NextPlainEvent]_vars

\* the value an Event holds for a raw text: null for None and for the empty text
PlainVal(text) == IF text = NoneS \/ text = <<>> THEN NoVal ELSE StrVal(text)

\* the Events stored for issue x
EventsOfIssue(x) == {e \in events : \E doc \in StoredIssue(x) : e.issue_id = doc.id}

\* C28: the Event bugzilla.py stores for a change of a field that holds neither a
\* person nor a link has the removed value as old_value and the added value as
\* new_value, each null when the raw value is None or empty.
C28_PlainEventValues ==
    obs.last.name # None =>
        /\ EventsOfIssue(obs.last.issue) # {}
        /\ \A e \in EventsOfIssue(obs.last.issue) :
               /\ e.old_value = PlainVal(obs.last.removed)
               /\ e.new_value = PlainVal(obs.last.added)

\* a change from the empty text to a text and a change from a text to None have
\* been stored
C28_Witness ==
    /\ obs.last.name # None
    /\ obs.last.added = NoneS /\ obs.last.removed = <<"x">>
    /\ \E e \in EventsOfIssue(1) : e.old_value = NoVal /\ e.new_value.kind = "str"
    /\ \E e \in EventsOfIssue(2) : e.old_value = StrVal(<<"x">>) /\ e.new_value = NoVal

(***************************************************************************)
(* process() of the Jira and the Bugzilla backend against a tracker whose  *)
(* issues were created one after the other (issue x at time x) and last    *)
(* updated at times of their own.  An Issue is here the fields process()   *)
(* reads; times count half minutes.                                        *)
(***************************************************************************)
\* the issues a page holds at most (limit / maxResults)
PageLimit == 2

CursorKeys == {1, 2, 3}
CursorTimes == 1..4

\* the trackers: some of the issues, each last updated when it was created or later
CursorTrackers ==
    UNION {{f \in [keys -> CursorTimes] : \A x \in keys : f[x] >= x} : keys \in SUBSET CursorKeys}

\* the Issue of system_id as _process_issue saves it for a raw issue
CursorIssue(system_id, x, updated_at) ==
    [id |-> NoneId, issue_system_id |-> system_id, external_id |-> str(x),
     updated_at |-> updated_at]

\* Issue.objects(issue_system_id=..).order_by('-updated_at').only('updated_at').first()
LastIssueUpdate(docs, system_id) ==
    LET mine == {d \in docs : d.issue_system_id = system_id}
    IN  IF mine = {} THEN <<>>
        ELSE <<CHOOSE t \in {d.updated_at : d \in mine} : \A d \in mine : d.updated_at <= t>>

\* starting_date.strftime('%Y/%m/%d %H:%M'): the start of the minute
Strftime(t) == 2 * (t \div 2)

\* the issues the query selects: all of them, or those updated after the minute
\* of starting_date (Jira: updatedDate > '..') or not before starting_date
\* (Bugzilla: last_change_time)
Selected(identifier, live, starting_date) ==
    IF starting_date = <<>> THEN DOMAIN live
    ELSE IF identifier = "jira"
    THEN {x \in DOMAIN live : live[x] > Strftime(starting_date[1])}
    ELSE {x \in DOMAIN live : live[x] >= starting_date[1]}

\* ORDER BY createdDate ASC / 'order': 'creation_time ASC'
RECURSIVE OrderByCreated(_)
OrderByCreated(keys) ==
    IF keys = {} THEN <<>>
    ELSE LET x == CHOOSE k \in keys : \A o \in keys : k <= o
         IN  <<x>> \o OrderByCreated(keys \ {x})

\* search_issues(query, startAt=offset, maxResults=..) / get_bug_list(.., offset=..)
SearchIssues(identifier, live, starting_date, offset) ==
    LET found == OrderByCreated(Selected(identifier, live, starting_date))
        last  == IF offset + PageLimit < Len(found) THEN offset + PageLimit ELSE Len(found)
    IN  SubSeq(found, offset + 1, last)

\* the Issues of the issue system when process() starts: none, or one stored
\* before for an issue of the tracker, last updated then or since (a backend
\* constructed for an issue system that holds Issues, as in the repository's
\* tests)
PriorStores(live) ==
    {{}} \cup {{[CursorIssue(1, x, t) EXCEPT !.id = 1]} :
                 <<x, t>> \in {p \in (DOMAIN live) \X CursorTimes : p[2] <= live[p[1]]}}

InitCursor ==
    /\ events = {} /\ comments = {} /\ issue_systems = {1}
    /\ people = {} /\ people_cache = EmptyMap
    /\ nextId = 2 /\ err = "none"
    /\ issue_system_id = 1 /\ last_system_id = NoneId
    /\ refs = [x \in IssueNumbers |-> {}] /\ imported = [x \in IssueNumbers |-> {}]
    /\ backend \in {"jira", "bugzilla"} /\ resolved = {}
    /\ tracker \in {[live |-> f] : f \in CursorTrackers}
    /\ issues \in PriorStores(tracker.live)
    /\ session = [pc |-> "start", starting_date |-> <<>>, offset |-> 0, page |-> <<>>]
    /\ obs = [processed |-> {}, start |-> LastIssueUpdate(issues, 1), requests |-> <<>>]

\* the cursor as it is passed with a request: formatted for the Jira query, as
\* it is for Bugzilla
PassedCursor(identifier, starting_date) ==
    IF starting_date = <<>> THEN <<>>
    ELSE IF identifier = "jira" THEN <<Strftime(starting_date[1])>>
    ELSE starting_date

\* a cursor looked up again in the store at the time of the request
PageCursor_recomputed(kept, docs, system_id) == LastIssueUpdate(docs, system_id)

\* the cursor of a request inside the loop: the local computed before the loop
PageCursor(kept, docs, system_id) == kept

\* process() up to its loop: the cursor, the query and the first page; the run
\* ends with sys.exit(0) when the page is empty
CursorProcessStart ==
    /\ session.pc = "start"
    /\ LET starting_date == LastIssueUpdate(issues, issue_system_id)
           page == SearchIssues(backend, tracker.live, starting_date, 0)
       IN  /\ session' = [pc |-> IF page = <<>> THEN "exited" ELSE "paging",
                       starting_date |-> starting_date, offset |-> PageLimit, page |-> page]
           /\ obs' = [obs EXCEPT !.requests =
                         Append(@, [since |-> PassedCursor(backend, starting_date),
                                    offset |-> 0])]
    /\ UNCHANGED <<storeVars, peopleVars, nextId, err, runVars, refs, imported, resolved,
                   tracker>>

\* _process_issue for the next issue of the page: its Issue is saved with the
\* time of its last update
CursorProcessIssue ==
    /\ session.pc = "paging"
    /\ session.page # <<>>
    /\ LET x     == Head(session.page)
           found == IssueQuery(DB, issue_system_id, str(x))
           doc   == IF found = {} THEN CursorIssue(issue_system_id, x, tracker.live[x])
                    ELSE [FirstDoc(found) EXCEPT !.updated_at = tracker.live[x]]
       IN  /\ SetDB(SaveIssue(DB, doc).db)
           /\ obs' = [obs EXCEPT !.processed = @ \cup {x}]
    /\ session' = [session EXCEPT !.page = Tail(@)]
    /\ UNCHANGED <<runVars, imported, resolved, tracker>>

\* the page is done: the next one is requested, and process() returns when it
\* is empty
CursorNextPage ==
    /\ session.pc = "paging"
    /\ session.page = <<>>
    /\ LET since == PageCursor(session.starting_date, issues, issue_system_id)
           page  == SearchIssues(backend, tracker.live, since, session.offset)
       IN  /\ session' = [session EXCEPT !.page = page, !.offset = @ + PageLimit,
                                          !.pc = IF page = <<>> THEN "done" ELSE "paging"]
           /\ obs' = [obs EXCEPT !.requests =
                         Append(@, [since |-> PassedCursor(backend, since),
                                    offset |-> session.offset])]
    /\ UNCHANGED <<storeVars, peopleVars, nextId, err, runVars, refs, imported, resolved,
                   tracker>>

NextCursor ==
    \/ CursorProcessStart
    \/ CursorProcessIssue
    \/ CursorNextPage

SpecCursor == InitCursor /\ [][NextCursor]_vars

\* C29: while process() pages through the issues, the greatest updated_at stored
\* for the issue system is not later than the last update of any issue of the
\* query that the run has not processed yet.
C29_CursorNotAheadOfUnprocessed ==
    session.pc = "paging" =>
        \A x \in Selected(backend, tracker.live, session.starting_date) \ obs.processed :
            \A t \in {LastIssueUpdate(issues, issue_system_id)} :
                t # <<>> => t[1] <= tracker.live[x]

(***************************************************************************)
(* _process_issue of bugzilla_old.py and of the Jira backend for an issue  *)
(* whose history holds one or two changes of string fields, one change an  *)
(* entry, with removed and added values of any kind.                       *)
(***************************************************************************)
StringFieldNames == {"status", "summary"}

\* the histories: one or two entries, entry k made at time k
StringHistories ==
    LET changes == {BzChange(name, removed, added) :
                        name \in StringFieldNames, removed \in RawValues, added \in RawValues}
    IN  {<<c>> : c \in changes} \cup {<<c1, c2>> : c1 \in changes, c2 \in changes}

\* what _process_issue does for issue x with the history
ProcessWithHistory(db, identifier, x, history) ==
    IF identifier = "bugzillaOld"
    THEN Old_process_issue(db, issue_system_id, RawBz(x, <<>>, <<>>, NoneId), <<>>,
                           [k \in DOMAIN history |->
                               [when |-> k, who |-> U_bob, changes |-> <<history[k]>>]])
    ELSE Jira_process_issue(db, issue_system_id,
                            [fields |-> RawJira(x),
                             histories |-> [k \in DOMAIN history |->
                                 [id |-> 10 * x + k, created |-> k, author |-> U_jane1,
                                  items |-> <<JiraItem(history[k].field_name, NoneS,
                                                       history[k].removed, NoneS,
                                                       history[k].added)>>]],
                             comments |-> <<>>])

\* the value of the field in the raw issue x
LiveValue(identifier, x, name) ==
    IF identifier = "bugzillaOld" THEN RawBz(x, <<>>, <<>>, NoneId)[name] ELSE RawJira(x)[name]

InitSetBack ==
    /\ StoreInit
    /\ issue_system_id = 1 /\ last_system_id = NoneId
    /\ refs = [x \in IssueNumbers |-> {}] /\ imported = [x \in IssueNumbers |-> {}]
    /\ backend \in {"bugzillaOld", "jira"} /\ resolved = {}
    /\ tracker = [items |-> 0]
    /\ session = [next |-> 1]
    /\ obs = [issue |-> 0, history |-> <<>>]

\* process() comes to issue x with the history
ProcessSetBack(x, history) ==
    /\ err = "none"
    /\ obs.issue = 0
    /\ SetDB(ProcessWithHistory(DB, backend, x, history))
    /\ session' = [session EXCEPT !.next = x + 1]
    /\ obs' = [issue |-> x, history |-> history]
    /\ tracker' = [tracker EXCEPT !.items = Len(history)]
    /\ UNCHANGED <<runVars, imported, resolved>>

NextSetBack ==
    \E x \in IssueNumbers, history \in StringHistories : ProcessSetBack(x, history)

SpecSetBack == InitSetBack /\ [][NextSetBack]_vars

\* the value of the field of entry k before the entry is set back: what the
\* next later entry of the same field removed, or the value of the raw issue
ValueBefore(identifier, x, history, k) ==
    LET later == {o \in DOMAIN history :
                      o > k /\ history[o].field_name = history[k].field_name}
    IN  IF later = {} THEN LiveValue(identifier, x, history[k].field_name)
        ELSE history[CHOOSE o \in later : \A p \in later : o <= p].removed

MaxSetBacks == 2

ArrayValues == {<<>>, L_a, L_b}

\* the lists of labels an Issue holds after _transform_issue (list(set(..)))
LabelLists == {SetToBag(s) : s \in SUBSET {L_a, L_b, <<"c">>}}

\* the list holds no value twice
NoDuplicate(list) == \A v \in BagToSet(list) : CopiesIn(v, list) = 1

\* _set_back_array_field of the backend for an item of the labels
SetBackArrayField(identifier, db, mongo_issue, removed, added) ==
    IF identifier = "bugzillaOld"
    THEN [db |-> db,
          issue |-> Old_set_back_array_field(mongo_issue, "labels",
                                             BzChange("keywords", removed, added))]
    ELSE Jira_set_back_array_field(db, mongo_issue, "labels",
                                   JiraItem("labels", NoneS, removed, NoneS, added))

NoSetBack == [acted |-> FALSE, removed |-> <<>>, added |-> <<>>, before |-> EmptyBag]

InitArrayBack ==
    /\ StoreInit
    /\ issue_system_id = 1 /\ last_system_id = NoneId
    /\ refs = [x \in IssueNumbers |-> {}] /\ imported = [x \in IssueNumbers |-> {}]
    /\ backend \in {"bugzillaOld", "jira"} /\ resolved = {}
    /\ tracker = [items |-> 0]
    /\ session \in {[issue |-> [NewIssue(1, "1") EXCEPT !.labels = list], steps |-> 0] :
                        list \in LabelLists}
    /\ obs = [last |-> NoSetBack]

\* the item is set back on the Issue in progress
SetBackArray(removed, added) ==
    /\ err = "none"
    /\ session.steps < MaxSetBacks
    /\ removed # added
    /\ LET r == SetBackArrayField(backend, DB, session.issue, removed, added)
       IN  /\ SetDB(r.db)
           /\ session' = [issue |-> r.issue, steps |-> session.steps + 1]
    /\ obs' = [last |-> [acted |-> TRUE, removed |-> removed, added |-> added,
                         before |-> session.issue.labels]]
    /\ UNCHANGED <<runVars, imported, resolved, tracker>>

NextArrayBack ==
    \E removed \in ArrayValues, added \in ArrayValues : SetBackArray(removed, added)

SpecArrayBack == InitArrayBack /\ [][NextArrayBack]_vars

\* C31: setting back an item of a multi-valued field raises nothing; the added
\* value is taken out of the list, or the list is cleared when the value is not
\* in it; the removed value is in the list once afterwards, and a list without
\* duplicates stays without duplicates.
C31_ArraySetBackOneRule ==
    (obs.last.acted /\ NoDuplicate(obs.last.before)) =>
        LET before == obs.last.before
            after  == session.issue.labels
            kept   == IF obs.last.added = <<>> THEN BagToSet(before)
                      ELSE IF BagIn(obs.last.added, before)
                      THEN BagToSet(before) \ {obs.last.added}
                      ELSE {}
        IN  /\ err = "none"
            /\ NoDuplicate(after)
            /\ BagToSet(after) = kept \cup (IF obs.last.removed = <<>> THEN {}
                                            ELSE {obs.last.removed})

(***************************************************************************)
(* _set_back_issue_links of the Jira backend and of bugzilla_old.py on an  *)
(* Issue in progress (id 1) whose links name the stored Issues 2 and 3,    *)
(* for history items that added ("to") or removed ("from") one link.       *)
(***************************************************************************)
LinkBackTargets == {2, 3}

\* the kinds of link of the items: raw field name, and type and effect as the
\* backend stores them
LinkKinds(identifier) ==
    IF identifier = "jira"
    THEN {[field |-> "blocks", type |-> "Blocker", effect |-> "blocks"],
          [field |-> "duplicates", type |-> "Duplicate", effect |-> "duplicates"]}
    ELSE {[field |-> f, type |-> Old_type_mapping(f), effect |-> f] :
              f \in {"blocks", "depends_on"}}

\* the entry of the link list for a link of the kind to the Issue
LinkEntry(issue_id, kind) == [issue_id |-> issue_id, type |-> kind.type, effect |-> kind.effect]

\* the link lists of an Issue after _transform_issue: no two links to one Issue
LiveLinkLists(identifier) ==
    LET entries == {LinkEntry(t, k) : t \in LinkBackTargets, k \in LinkKinds(identifier)}
    IN  {<<>>} \cup {<<e>> : e \in entries}
        \cup {<<e1, e2>> : <<e1, e2>> \in {p \in entries \X entries :
                                              p[1].issue_id # p[2].issue_id}}

\* _set_back_issue_links of the backend for the item of one link
SetBackIssueLinks(identifier, db, mongo_issue, direction, target, kind) ==
    IF identifier = "jira"
    THEN LET text == <<"This", "issue", kind.field, str(target)>>
         IN  Jira_set_back_issue_links(db, issue_system_id, mongo_issue, "issue_links",
                 IF direction = "to"
                 THEN JiraItem("Link", NoneS, NoneS, Chars(target), text)
                 ELSE JiraItem("Link", Chars(target), text, NoneS, NoneS))
    ELSE Old_set_back_issue_links(db, issue_system_id, mongo_issue, "issue_links",
                 IF direction = "to" THEN BzChange(kind.field, <<>>, Chars(target))
                 ELSE BzChange(kind.field, Chars(target), <<>>))

NoLinkBack == [acted |-> FALSE, direction |-> None, entry |-> LinkEntry(NoneId, [type |-> None, effect |-> None]),
               before |-> <<>>]

InitLinkBack ==
    /\ issues = {[NewIssue(1, str(t)) EXCEPT !.id = t] : t \in LinkBackTargets}
    /\ events = {} /\ comments = {} /\ issue_systems = {1}
    /\ people = {} /\ people_cache = EmptyMap
    /\ nextId = 4 /\ err = "none"
    /\ issue_system_id = 1 /\ last_system_id = NoneId
    /\ refs = [x \in 1..3 |-> {}] /\ imported = [x \in IssueNumbers |-> {}]
    /\ backend \in {"bugzillaOld", "jira"} /\ resolved = {}
    /\ tracker = [items |-> 0]
    /\ session \in {[issue |-> [NewIssue(1, "1") EXCEPT !.id = 1, !.issue_links = list],
                     steps |-> 0] : list \in LiveLinkLists(backend)}
    /\ obs = [last |-> NoLinkBack]

\* the item is set back on the Issue in progress
SetBackLink(direction, target, kind) ==
    /\ err = "none"
    /\ session.steps < MaxSetBacks
    /\ kind \in LinkKinds(backend)
    /\ LET r == SetBackIssueLinks(backend, DB, session.issue, direction, target, kind)
       IN  /\ SetDB(r.db)
           /\ session' = [issue |-> r.issue, steps |-> session.steps + 1]
    /\ obs' = [last |-> [acted |-> TRUE, direction |-> direction,
                         entry |-> LinkEntry(target, kind),
                         before |-> session.issue.issue_links]]
    /\ UNCHANGED <<runVars, imported, resolved, tracker>>

NextLinkBack ==
    \E direction \in {"to", "from"}, target \in LinkBackTargets,
       kind \in LinkKinds("jira") \cup LinkKinds("bugzillaOld") :
        SetBackLink(direction, target, kind)

SpecLinkBack == InitLinkBack /\ [][NextLinkBack]_vars

\* C32: setting back a link item raises nothing; for a link the item added, the
\* first entry with that target, effect and type (compared in lower case) is
\* deleted and the list is unchanged when there is none; for a link the item
\* removed, the entry is appended unless such an entry is in the list.
C32_LinkSetBackByIdentity ==
    obs.last.acted =>
        LET before == obs.last.before
            after  == session.issue.issue_links
            hits   == LinkPlaces(before, obs.last.entry.issue_id, obs.last.entry)
        IN  /\ err = "none"
            /\ obs.last.direction = "to" =>
                   after = IF hits = {} THEN before
                           ELSE DelAt(before, CHOOSE k \in hits : \A o \in hits : k <= o)
            /\ obs.last.direction = "from" =>
                   after = IF hits = {} THEN Append(before, obs.last.entry) ELSE before

(***************************************************************************)
(* _process_issue of the Jira backend for issues whose changelog is one    *)
(* item of a field that at_mapping maps to an attribute of the Issue.      *)
(***************************************************************************)
\* keys of at_mapping whose attribute the Issue carries here as a plain value
MappedFieldNames == {"summary", "status", "priority", "issuetype", "reporter", "creator"}

NoMappedItem == [issue |-> 0, name |-> None]

InitMapped ==
    /\ StoreInit
    /\ issue_system_id = 1 /\ last_system_id = NoneId
    /\ refs = [x \in IssueNumbers |-> {}] /\ imported = [x \in IssueNumbers |-> {}]
    /\ backend = "jira" /\ resolved = {}
    /\ tracker = [items |-> 0]
    /\ session = [next |-> 1]
    /\ obs = [last |-> NoMappedItem]

\* process() comes to issue x, whose one changelog item is of a mapped field
ProcessMapped(x, name, removed, added) ==
    /\ err = "none"
    /\ session.next = x
    /\ HasMapping(backend, name)
    /\ removed # added
    /\ SetDB(ProcessWithItem(DB, backend, x, name, removed, added))
    /\ session' = [session EXCEPT !.next = x + 1]
    /\ obs' = [obs EXCEPT !.last = [issue |-> x, name |-> name]]
    /\ tracker' = [tracker EXCEPT !.items = @ + 1]
    /\ UNCHANGED <<runVars, imported, resolved>>

NextMapped ==
    \E x \in IssueNumbers, name \in MappedFieldNames, removed \in RawValues,
       added \in RawValues : ProcessMapped(x, name, removed, added)

SpecMapped == InitMapped /\ [][NextMapped]_vars

\* C33: once an issue with a changelog item of a mapped field has been
\* processed, no exception has ended the run and the store holds the Event of
\* the item, its status the attribute the field is mapped to.
C33_MappedFieldHasInverseRule ==
    obs.last.name # None =>
        /\ err = "none"
        /\ \E e \in EventsOfIssue(obs.last.issue) :
               e.status = Jira_at_mapping(Jira_terminology_mapping(obs.last.name))

(***************************************************************************)
(* The paging loop of process() in the Bugzilla, Jira and GitHub backends  *)
(* against an adapter that answers a request with any page and, after      *)
(* MaxPages pages with issues, with an empty one.  _process_issue is the   *)
(* note that the issue was processed.                                      *)
(***************************************************************************)
\* the pages with issues the adapter returns at most
MaxPages == 2

\* limit=50 / maxResults=50, and the step of processed_results
PageStep == 50

\* the pages the adapter may return
Pages == {<<>>, <<1>>, <<2>>, <<1, 2>>, <<2, 1>>}

\* the counter stays as it is
Advance_stuck(identifier, counter) == counter

\* processed_results += 50 / page_number += 1
Advance(identifier, counter) ==
    IF identifier = "github" THEN counter + 1 ELSE counter + PageStep

\* the counter before the loop: processed_results = 50 / page_number = 1
FirstCounter(identifier) == IF identifier = "github" THEN 1 ELSE PageStep

\* the first request: get_bug_list(limit=50) / search_issues(startAt=0) /
\* get_issues() with pagecount=1
FirstRequestArg(identifier) == IF identifier = "github" THEN 1 ELSE 0

InitPaging ==
    /\ StoreInit
    /\ issue_system_id = 1 /\ last_system_id = NoneId
    /\ refs = [x \in IssueNumbers |-> {}] /\ imported = [x \in IssueNumbers |-> {}]
    /\ backend \in {"bugzilla", "jira", "github"} /\ resolved = {}
    /\ tracker = [items |-> 0]
    /\ session = [pc |-> "start", counter |-> 0, todo |-> <<>>]
    /\ obs = [requests |-> <<>>, pages |-> <<>>, processed |-> <<>>]

PagingUnchanged ==
    UNCHANGED <<storeVars, peopleVars, nextId, err, runVars, refs, imported, resolved, tracker>>

\* the adapter may answer with the page
MayReturn(page) ==
    page # <<>> => Len(SelectSeq(obs.pages, LAMBDA p : p # <<>>)) < MaxPages

\* process() up to its loop: the first page is requested; sys.exit(0) when it
\* is empty
PagingFirstRequest(page) ==
    /\ session.pc = "start"
    /\ MayReturn(page)
    /\ session' = [pc |-> IF page = <<>> THEN "exited" ELSE "loop",
                   counter |-> FirstCounter(backend), todo |-> page]
    /\ obs' = [obs EXCEPT !.requests = Append(@, FirstRequestArg(backend)),
                          !.pages = Append(@, page)]
    /\ PagingUnchanged

\* the body of the for loop for the next issue of the page
PagingProcessIssue ==
    /\ session.pc = "loop"
    /\ session.todo # <<>>
    /\ session' = [session EXCEPT !.todo = Tail(@)]
    /\ obs' = [obs EXCEPT !.processed = Append(@, Head(session.todo))]
    /\ PagingUnchanged

\* the page is done: the next page is requested (GitHub raises page_number
\* before the request, Bugzilla and Jira raise processed_results after it), and
\* the loop ends when it is empty
PagingNextRequest(page) ==
    /\ session.pc = "loop"
    /\ session.todo = <<>>
    /\ MayReturn(page)
    /\ LET next == Advance(backend, session.counter)
           arg  == IF backend = "github" THEN next ELSE session.counter
       IN  /\ session' = [pc |-> IF page = <<>> THEN "done" ELSE "loop",
                          counter |-> next, todo |-> page]
           /\ obs' = [obs EXCEPT !.requests = Append(@, arg), !.pages = Append(@, page)]
    /\ PagingUnchanged

NextPaging ==
    \/ \E page \in Pages : PagingFirstRequest(page)
    \/ PagingProcessIssue
    \/ \E page \in Pages : PagingNextRequest(page)

\* process() runs on while it can
SpecPaging == InitPaging /\ [][NextPaging]_vars /\ WF_vars(NextPaging)

\* the issues of the pages, in the order of the pages
RECURSIVE Flatten(_)
Flatten(pages) == IF pages = <<>> THEN <<>> ELSE Head(pages) \o Flatten(Tail(pages))

\* the requests are consecutive, the issues of the pages returned are processed
\* once each and in their order, and no request follows an empty page
PagingInOrder ==
    /\ \A k \in DOMAIN obs.requests :
           obs.requests[k] = IF backend = "github" THEN k ELSE (k - 1) * PageStep
    /\ obs.processed \o session.todo = Flatten(obs.pages)
    /\ \A k \in DOMAIN obs.pages :
           obs.pages[k] = <<>> => (k = Len(obs.pages) /\ session.pc \in {"done", "exited"})
    /\ session.pc \in {"done", "exited"} =>
           (obs.pages # <<>> /\ obs.pages[Len(obs.pages)] = <<>> /\ session.todo = <<>>)

\* C34: the paging loop requests consecutive pages, processes every issue of
\* every page once and in page order, stops at the first empty page, and
\* process() ends when the adapter comes to return an empty page.
C34_PagingInOrderAndEnds ==
    []PagingInOrder /\ <>(session.pc \in {"done", "exited"})

\* process() has returned after two pages with issues
C34_Witness ==
    /\ session.pc = "done"
    /\ Len(obs.pages) = 3
    /\ Len(obs.processed) >= 2
    /\ obs.requests[3] \in {3, 2 * PageStep}

\* C35: the cursor is computed once, before the first page request, as the
\* greatest updated_at stored for the issue system (absent when none is stored),
\* and every page request of the run passes that same value, whatever Issues the
\* run has saved in between.
C35_CursorComputedOnce ==
    \A k \in 1..Len(obs.requests) :
        obs.requests[k].since = PassedCursor(backend, obs.start)

\* a later page has been requested under a stored cursor after the run saved an
\* Issue updated later than that cursor
C35_Witness ==
    /\ Len(obs.requests) >= 2
    /\ obs.start # <<>>
    /\ LastIssueUpdate(issues, issue_system_id) # obs.start
    /\ obs.processed # {}

(***************************************************************************)
(* Two runs of the Bugzilla backend on different issue systems against one *)
(* store.  Each run processes one issue of its tracker; a step of a run is *)
(* one store operation of _process_issue (a query, a save, an upsert, a    *)
(* bulk insert) with the local work before it, and the steps of the two    *)
(* runs interleave in any order.  Each run has its own people cache.       *)
(***************************************************************************)
RunIds == {1, 2}

\* the changes of turn between the runs that are counted
MaxTurns == 4

\* the issue a run's tracker returns: its number, its assignee, the issue it
\* blocks (0 for none), the author of its one history entry and of its one comment
RunInputs ==
    {inp \in [ext : {1}, assignee : {U_jane1, U_jane2, U_bob},
              blocks : {0, 2}, who : {U_jane2, U_gone}] :
        inp.blocks # inp.ext}

\* the locals of a run at the start of _process_issue
RunStart ==
    [pc |-> "find", doc |-> NewIssue(NoneId, str(0)), ref |-> NoneId, author |-> NoneId]

\* the next store operation of _process_issue for the run's issue, from where the
\* run stands; db carries the run's own people cache and its own exception
RunStep(db, loc, inp, system_id) ==
    IF db.err # "none" THEN [db |-> db, loc |-> [loc EXCEPT !.pc = "done"]]
    ELSE IF loc.pc = "find"
    THEN LET found == IssueQuery(db, system_id, str(inp.ext))
         IN  IF Cardinality(found) > 1
             THEN [db |-> [db EXCEPT !.err = "MultipleObjectsReturned"],
                   loc |-> [loc EXCEPT !.pc = "done"]]
             ELSE [db |-> db,
                   loc |-> [loc EXCEPT !.pc = "assignee",
                                       !.doc = IF found = {} THEN NewIssue(system_id, str(inp.ext))
                                               ELSE FirstDoc(found)]]
    ELSE IF loc.pc = "assignee"
    THEN LET p == Bz_parse_author_details(db, inp.assignee)
         IN  [db |-> p.db,
              loc |-> [loc EXCEPT !.doc.assignee_id = p.id,
                                  !.pc = IF inp.blocks = 0 THEN "save" ELSE "ref"]]
    ELSE IF loc.pc = "ref"
    THEN LET found == IssueQuery(db, system_id, str(inp.blocks))
         IN  IF found = {} THEN [db |-> db, loc |-> [loc EXCEPT !.pc = "stub"]]
             ELSE IF Cardinality(found) > 1
             THEN [db |-> [db EXCEPT !.err = "MultipleObjectsReturned"],
                   loc |-> [loc EXCEPT !.pc = "done"]]
             ELSE [db |-> db, loc |-> [loc EXCEPT !.pc = "save", !.ref = FirstDoc(found).id]]
    ELSE IF loc.pc = "stub"
    THEN LET sv == SaveIssue(db, NewIssue(system_id, str(inp.blocks)))
         IN  [db |-> sv.db, loc |-> [loc EXCEPT !.pc = "save", !.ref = sv.doc.id]]
    ELSE IF loc.pc = "save"
    THEN LET link == [issue_id |-> loc.ref, type |-> "Blocker", effect |-> "blocks"]
             doc  == IF inp.blocks = 0 THEN loc.doc
                     ELSE [loc.doc EXCEPT !.issue_links = MergeLinks(@, <<link>>)]
             sv   == SaveIssue(db, doc)
         IN  [db |-> sv.db, loc |-> [loc EXCEPT !.pc = "who", !.doc = sv.doc]]
    ELSE IF loc.pc = "who"
    THEN LET p == Bz_get_people(db, inp.who, NoneS, NoneS)
         IN  [db |-> p.db, loc |-> [loc EXCEPT !.pc = "event_find", !.author = p.id]]
    ELSE IF loc.pc = "event_find"
    THEN LET found == EventQuery(db, Bz_unique_event_id(inp.ext, 0, 0), loc.doc.id)
         IN  [db |-> db,
              loc |-> [loc EXCEPT !.pc = IF found = {} THEN "event_insert" ELSE "comment_find"]]
    ELSE IF loc.pc = "event_insert"
    THEN LET e == [NewEvent(Bz_unique_event_id(inp.ext, 0, 0), loc.doc.id, 1, loc.author)
                       EXCEPT !.status = "status"]
         IN  [db |-> InsertEvents(db, <<e>>), loc |-> [loc EXCEPT !.pc = "comment_find"]]
    ELSE IF loc.pc = "comment_find"
    THEN LET found == CommentQuery(db, Chars(loc.doc.id) \o <<"%">> \o Chars(0), loc.doc.id)
         IN  [db |-> db,
              loc |-> [loc EXCEPT !.pc = IF found = {} THEN "commenter" ELSE "done"]]
    ELSE IF loc.pc = "commenter"
    THEN LET p == Bz_get_people(db, inp.who, NoneS, NoneS)
         IN  [db |-> p.db, loc |-> [loc EXCEPT !.pc = "comment_insert", !.author = p.id]]
    ELSE IF loc.pc = "comment_insert"
    THEN LET c == [id |-> NoneId, external_id |-> Chars(loc.doc.id) \o <<"%">> \o Chars(0),
                   issue_id |-> loc.doc.id, created_at |-> 1, author_id |-> loc.author,
                   comment |-> <<"t">>]
         IN  [db |-> InsertComments(db, <<c>>), loc |-> [loc EXCEPT !.pc = "done"]]
    ELSE [db |-> db, loc |-> loc]

InitTwoRuns ==
    /\ issues = {} /\ events = {} /\ comments = {} /\ people = {}
    /\ issue_systems = RunIds
    /\ people_cache = EmptyMap /\ nextId = 1 /\ err = "none"
    /\ backend = "bugzilla" /\ issue_system_id = 1 /\ last_system_id = NoneId
    /\ refs = [x \in IssueNumbers |-> {}] /\ imported = [x \in IssueNumbers |-> {}]
    /\ resolved = {}
    /\ tracker \in [RunIds -> RunInputs]
    /\ session = [r \in RunIds |-> [loc |-> RunStart, cache |-> EmptyMap, err |-> "none"]]
    /\ obs = [last |-> 0, turns |-> 0]

\* run r performs its next store operation on the shared store
RunStoreOp(r) ==
    /\ session[r].loc.pc # "done"
    /\ LET view == [DB EXCEPT !.cache = session[r].cache, !.err = session[r].err]
           out  == RunStep(view, session[r].loc, tracker[r], r)
       IN  /\ SetDB([out.db EXCEPT !.cache = people_cache, !.err = err])
           /\ session' = [session EXCEPT ![r] = [loc |-> out.loc, cache |-> out.db.cache,
                                                 err |-> out.db.err]]
    /\ obs' = [last |-> r,
               turns |-> IF obs.last = r \/ obs.turns = MaxTurns THEN obs.turns ELSE obs.turns + 1]
    /\ UNCHANGED <<runVars, imported, resolved, tracker>>

NextTwoRuns == \E r \in RunIds : RunStoreOp(r)

SpecTwoRuns == InitTwoRuns /\ [][NextTwoRuns]_vars

\* the store a run alone starts on
EmptyStore ==
    [issues |-> {}, events |-> {}, comments |-> {}, people |-> {}, cache |-> EmptyMap,
     nextId |-> 1, err |-> "none", refs |-> [x \in IssueNumbers |-> {}]]

\* the store after the run alone has performed all its store operations
RECURSIVE RunFrom(_, _, _, _)
RunFrom(db, loc, inp, system_id) ==
    IF loc.pc = "done" THEN db
    ELSE LET out == RunStep(db, loc, inp, system_id)
         IN  RunFrom(out.db, out.loc, inp, system_id)

RunAlone(r) == RunFrom(EmptyStore, RunStart, tracker[r], r)

\* documents up to the ObjectIds: a Person is its (name, email), an Issue its
\* (issue system, external id)
PersonKey(db, id) ==
    IF id = NoneId THEN <<>>
    ELSE LET p == CHOOSE q \in db.people : q.id = id IN <<p.name, p.email>>

IssueKey(db, id) ==
    IF id = NoneId THEN <<>>
    ELSE LET i == CHOOSE j \in db.issues : j.id = id IN <<i.issue_system_id, i.external_id>>

\* the Issues, Events and Comments of an issue system, up to the ObjectIds
RunResult(db, system_id) ==
    LET mine == {i \in db.issues : i.issue_system_id = system_id}
        ids  == {i.id : i \in mine}
    IN  [issues   |-> {<<[i EXCEPT !.id = NoneId, !.assignee_id = NoneId, !.issue_links = <<>>],
                         PersonKey(db, i.assignee_id),
                         [k \in DOMAIN i.issue_links |->
                             [i.issue_links[k] EXCEPT !.issue_id = NoneId]],
                         [k \in DOMAIN i.issue_links |-> IssueKey(db, i.issue_links[k].issue_id)]>> :
                        i \in mine},
         events   |-> {<<[e EXCEPT !.id = NoneId, !.issue_id = NoneId, !.author_id = NoneId],
                         IssueKey(db, e.issue_id), PersonKey(db, e.author_id)>> :
                        e \in {e \in db.events : e.issue_id \in ids}},
         comments |-> {<<[c EXCEPT !.id = NoneId, !.issue_id = NoneId, !.author_id = NoneId,
                                   !.external_id = <<>>],
                         IssueKey(db, c.issue_id), PersonKey(db, c.author_id)>> :
                        c \in {c \in db.comments : c.issue_id \in ids}}]

\* C36: however the store operations of two runs on different issue systems
\* interleave, each run ends with the Issues, Comments and Events (and the
\* exception) it ends with when run alone, and the People collection never holds
\* two Persons with the same (name, email).
C36_SeparateRunsSafe ==
    /\ \A p, q \in people : (p.name = q.name /\ p.email = q.email) => p.id = q.id
    /\ (\A r \in RunIds : session[r].loc.pc = "done") =>
           \A r \in RunIds :
               /\ RunResult(DB, r) = RunResult(RunAlone(r), r)
               /\ session[r].err = RunAlone(r).err

\* both runs are done after taking turns, on issues with the same number, a
\* shared Person and a reference each
C36_Witness ==
    /\ \A r \in RunIds : session[r].loc.pc = "done" /\ session[r].err = "none"
    /\ obs.turns = MaxTurns
    /\ tracker[1].ext = tracker[2].ext
    /\ tracker[1].blocks # 0 /\ tracker[2].blocks # 0
    /\ \E p \in people : \A r \in RunIds : p.id \in {session[r].cache[u] : u \in DOMAIN session[r].cache}
    /\ Cardinality(issues) = 4

\* the Event stored for entry k of the history of the issue processed
EventOfEntry(k) == {e \in EventsOfIssue(obs.issue) : e.created_at = k}

\* C37: the Events of the changes of one string field form a chain: the new_value
\* of the Event of a change is the old_value of the Event of the next later
\* change of that field, and the new_value of the Event of the field's latest
\* change is the field's value in the raw issue.
C37_StringFieldChain ==
    obs.issue # 0 =>
        \A k \in DOMAIN obs.history :
            LET name  == obs.history[k].field_name
                later == {o \in DOMAIN obs.history : o > k /\ obs.history[o].field_name = name}
                next  == CHOOSE o \in later : \A p \in later : o <= p
            IN  /\ Cardinality(EventOfEntry(k)) = 1
                /\ \A e \in EventOfEntry(k) :
                       IF later = {} THEN e.new_value = StrVal(LiveValue(backend, obs.issue, name))
                       ELSE \A f \in EventOfEntry(next) : e.new_value = f.old_value

\* two changes of one field were processed, the later one from a value that is
\* neither the raw issue's nor the one the earlier change came from
C37_Witness ==
    /\ obs.issue # 0
    /\ Len(obs.history) = 2
    /\ obs.history[1].field_name = obs.history[2].field_name
    /\ obs.history[2].removed # LiveValue(backend, obs.issue, obs.history[2].field_name)
    /\ obs.history[2].removed # obs.history[1].removed
    /\ \A k \in {1, 2} : Cardinality(EventOfEntry(k)) = 1

\* C38: a history item of a field without a mapping leaves the Issue as it is:
\* the Issue stored for the issue has the fields it has when the issue is
\* processed without the item.
C38_UnmappedItemLeavesIssue ==
    obs.last.name # None =>
        \A doc \in IssueFields(issues, obs.last.issue) : doc \in obs.last.plain

\* C39: _send_request returns the body of a response with status 200 only; it
\* raises RequestException after three requests answered with another status,
\* having returned nothing; and it sends no more than three requests and one
\* repeat after a rate-limit wait.
C39_ReturnsOnlyFrom200 ==
    /\ session.pc = "returned" => (session.result # 0 /\ session.resp.status = 200)
    /\ session.pc = "raised" =>
           (session.sent = GhTries /\ session.result = 0 /\ err = "RequestException")
    /\ session.sent <= GhTries + 1

=============================================================================
